---------------------------- MODULE Spec2Model ----------------------------
(***************************************************************************)
(* A model of the data synchronisation engine of the IT workload tracker:  *)
(* the work-item row codec and the clear-then-write table sync of          *)
(* GoogleSheetsService, and the callers that drive it from the in-memory   *)
(* store (syncToSheets, loadFromSheets, saveAllToSheets,                   *)
(* loadAllFromSheets).                                                     *)
(*                                                                         *)
(* JavaScript values are represented as follows.  A string-typed field is  *)
(* a TLA+ string, and the reserved string UNDEFINED stands for the value   *)
(* undefined.  A number-typed field is a record [def, nan, v]: undefined,  *)
(* NaN, or the integer v.  The optional session list is a record [def, v]. *)
(* An ISO timestamp of clock value n is the string "t" \o ToString(n).     *)
(***************************************************************************)
EXTENDS Integers, Sequences, FiniteSets, TLC

VARIABLES
    \* ---- the row codec exercised on one item (specification SpecCodec)
    cx,         \* the WorkItem handed to the encoder
    crow,       \* the row the encoder produced
    cout,       \* the WorkItem the decoder produced from crow
    cpc,        \* "init" | "encoded" | "decoded"
    \* ---- the service and the application
    now,        \* the wall clock read by new Date()
    store,      \* the in-memory store: the three buckets and the ticket summary
    remote,     \* the spreadsheet: sheet name -> rows, row 1 being the header
    configured, \* this.config?.spreadsheetId is set
    isAuthenticated,
    op,         \* the operation in flight, "none" when there is none
    phase,      \* "idle" | "running" | "done"
    snap,       \* the store as it was when the operation started
    task,       \* per table: the state of the service call working on it
    loaded,     \* per bucket: the list loadWorkloadItems returned
    loadedTickets, \* the summary loadTicketsSummary returned
    interfered, \* per table: another writer changed it during the operation
    callBucket, \* the bucket the direct service calls are made on
    last,       \* the previous sync of that bucket, when nothing wrote after it
    csvText,    \* the text of the file of the last import
    csv,        \* the file of the last import as parseCsv returned it
    reduction,  \* the counters the last import computed from the file
    imports,    \* number of imports made
    \* ---- the sessions of one work item and the calendar (specification SpecSessions)
    sessions,   \* workItem.workSessions of the item
    events,     \* the ids of the events in the remote calendar
    sheetRow,   \* the item's row in its sheet, NoRow when the sheet has none
    sessionOp,  \* the last session operation: what it was given and what it called
    deletedIds, \* the ids of the sessions deleted so far
    linked,     \* session id and event id of every successful remote create
    nextSession, \* the number the next new session gets
    \* ---- the local operations and the overlapping syncs
    opCount,    \* number of operations on the store made so far
    second      \* the second sync call working on the bucket's table

codecVars == <<cx, crow, cout, cpc>>
csvVars == <<csvText, csv, reduction, imports>>
sessVars == <<sessions, events, sheetRow, sessionOp, deletedIds, linked, nextSession>>
appVars == <<opCount, second>>
svcVars == <<store, remote, configured, isAuthenticated, op, phase, snap, task,
             loaded, loadedTickets, interfered, callBucket, last>>
vars == <<cx, crow, cout, cpc, now, store, remote, configured, isAuthenticated,
          op, phase, snap, task, loaded, loadedTickets, interfered, callBucket, last,
          csvText, csv, reduction, imports,
          sessions, events, sheetRow, sessionOp, deletedIds, linked, nextSession,
          opCount, second>>

-----------------------------------------------------------------------------
(* Bounds of the model                                                     *)

MaxClock == 2      \* the clock takes the values 0..MaxClock
MaxInt == 150      \* parseInt recognises the decimal strings of -MaxInt..MaxInt
MaxForeign == 1    \* rows another writer may add to a table
MaxRows == 2       \* data rows of a generated ticket list file
MaxImports == 2    \* CSV imports in one behaviour
MaxSessions == 2   \* sessions added to the item in one behaviour
MaxItems == 2      \* items a bucket may grow to by addItem
MaxOps == 2        \* operations on the store in one behaviour

-----------------------------------------------------------------------------
(* JavaScript values                                                       *)

UNDEFINED == "<undefined>"

Falsy(s) == s = UNDEFINED \/ s = ""

\* a || b on strings
OrElse(a, b) == IF Falsy(a) THEN b ELSE a

Num(n) == [def |-> TRUE, nan |-> FALSE, v |-> n]
UndefNum == [def |-> FALSE, nan |-> FALSE, v |-> 0]
NaN == [def |-> TRUE, nan |-> TRUE, v |-> 0]

Sess(l) == [def |-> TRUE, v |-> l]
NoSessions == [def |-> FALSE, v |-> <<>>]

\* new Date().toISOString() at clock value n
ISO(n) == "t" \o ToString(n)

\* Number.prototype.toString for an integer
NumToString(n) == ToString(n)

\* Cells that are not the decimal string of an integer but start with one:
\* parseInt reads the leading integer and ignores the rest.
DecimalPrefix == [s \in {"33.9", "12abc", " 7"} |->
                    CASE s = "33.9" -> 33 [] s = "12abc" -> 12 [] s = " 7" -> 7]

\* parseInt(s)
ParseInt(s) ==
    IF \E n \in -MaxInt..MaxInt : NumToString(n) = s
    THEN Num(CHOOSE n \in -MaxInt..MaxInt : NumToString(n) = s)
    ELSE IF s \in DOMAIN DecimalPrefix THEN Num(DecimalPrefix[s])
    ELSE NaN

-----------------------------------------------------------------------------
(* Strings and numbers of the CSV import                                   *)

UpperCase == "ABCDEFGHIJKLMNOPQRSTUVWXYZ"
LowerCase == "abcdefghijklmnopqrstuvwxyz"
Digits == "0123456789"

CharAt(s, i) == SubSeq(s, i, i)

\* position of character c in the alphabet, 0 when it is not there
IndexIn(alphabet, c) ==
    IF \E i \in 1..Len(alphabet) : CharAt(alphabet, i) = c
    THEN CHOOSE i \in 1..Len(alphabet) : CharAt(alphabet, i) = c
    ELSE 0

RECURSIVE toLowerCase(_)
\* String.prototype.toLowerCase
toLowerCase(s) ==
    IF s = "" THEN ""
    ELSE LET c == CharAt(s, 1)
             k == IndexIn(UpperCase, c)
         IN  (IF k = 0 THEN c ELSE CharAt(LowerCase, k)) \o toLowerCase(SubSeq(s, 2, Len(s)))

\* String.prototype.includes
includes(s, sub) ==
    \E i \in 1..(Len(s) - Len(sub) + 1) : SubSeq(s, i, i + Len(sub) - 1) = sub

\* String.prototype.endsWith
endsWith(s, suffix) ==
    /\ Len(suffix) <= Len(s)
    /\ SubSeq(s, Len(s) - Len(suffix) + 1, Len(s)) = suffix

RECURSIVE RemoveCommas(_)
\* s.replace(/,/g, '')
RemoveCommas(s) ==
    IF s = "" THEN ""
    ELSE (IF CharAt(s, 1) = "," THEN "" ELSE CharAt(s, 1)) \o RemoveCommas(SubSeq(s, 2, Len(s)))

IsDigits(s) == \A i \in 1..Len(s) : IndexIn(Digits, CharAt(s, i)) > 0

IsZeros(s) == \A i \in 1..Len(s) : CharAt(s, i) = "0"

RECURSIVE DigitsValue(_, _)
DigitsValue(s, acc) ==
    IF s = "" THEN acc
    ELSE DigitsValue(SubSeq(s, 2, Len(s)), acc * 10 + IndexIn(Digits, CharAt(s, 1)) - 1)

\* Number(s) of a trimmed cell: the empty string is 0; an optionally signed
\* run of decimal digits, with or without a fraction of zeros, is that
\* integer; every other text among the cells read here is NaN (cells with an
\* exponent, a hexadecimal prefix or a non-zero fraction are not among them)
Number(s) ==
    LET signed == s # "" /\ CharAt(s, 1) \in {"-", "+"}
        sign == IF s # "" /\ CharAt(s, 1) = "-" THEN -1 ELSE 1
        body == IF signed THEN SubSeq(s, 2, Len(s)) ELSE s
        dot == IndexIn(body, ".")
        int == IF dot = 0 THEN body ELSE SubSeq(body, 1, dot - 1)
        frac == IF dot = 0 THEN "" ELSE SubSeq(body, dot + 1, Len(body))
    IN  IF s = "" THEN Num(0)
        ELSE IF /\ IsDigits(int) /\ IsDigits(frac) /\ IsZeros(frac)
                /\ Len(int) + Len(frac) > 0
        THEN Num(sign * DigitsValue(int, 0))
        ELSE NaN

\* Number.isFinite
NumberIsFinite(n) == n.def /\ ~n.nan

-----------------------------------------------------------------------------
(* Row objects                                                             *)

\* obj[k] = v: a new key goes last, a key already there keeps its place
Put(obj, k, v) ==
    IF \E i \in 1..Len(obj) : obj[i][1] = k
    THEN [i \in 1..Len(obj) |-> IF obj[i][1] = k THEN <<k, v>> ELSE obj[i]]
    ELSE Append(obj, <<k, v>>)

\* obj[k]
Get(obj, k) ==
    IF \E i \in 1..Len(obj) : obj[i][1] = k
    THEN obj[CHOOSE i \in 1..Len(obj) : obj[i][1] = k][2]
    ELSE UNDEFINED

\* Object.keys(obj)
Keys(obj) == [i \in 1..Len(obj) |-> obj[i][1]]

RECURSIVE RowObjectFrom(_, _, _, _)
RowObjectFrom(headers, cols, idx, obj) ==
    IF idx > Len(headers) THEN obj
    ELSE RowObjectFrom(headers, cols, idx + 1,
                       Put(obj, headers[idx], IF idx <= Len(cols) THEN cols[idx] ELSE ""))

\* the object parseCsv makes of one line: obj[h] = cols[idx] ?? ''
RowObject(headers, cols) == RowObjectFrom(headers, cols, 1, <<>>)

RECURSIVE NormalizeFrom(_, _, _)
NormalizeFrom(r, idx, o) ==
    IF idx > Len(r) THEN o
    ELSE NormalizeFrom(r, idx + 1, Put(o, toLowerCase(r[idx][1]), r[idx][2]))

\* the row with its keys in lower case
Normalize(r) == NormalizeFrom(r, 1, <<>>)

-----------------------------------------------------------------------------
(* parseCsv                                                                *)

\* position of the first character c of s, 0 when there is none
FirstIndex(s, c) ==
    IF \E i \in 1..Len(s) : CharAt(s, i) = c
    THEN CHOOSE i \in 1..Len(s) :
            CharAt(s, i) = c /\ \A j \in 1..(i - 1) : CharAt(s, j) # c
    ELSE 0

RECURSIVE NormalizeNewlines(_)
\* text.replace(/\r\n?|\n/g, '\n')
NormalizeNewlines(text) ==
    LET k == FirstIndex(text, "\r")
    IN  IF k = 0 THEN text
        ELSE SubSeq(text, 1, k - 1) \o "\n"
             \o NormalizeNewlines(IF k < Len(text) /\ CharAt(text, k + 1) = "\n"
                                  THEN SubSeq(text, k + 2, Len(text))
                                  ELSE SubSeq(text, k + 1, Len(text)))

RECURSIVE SplitLines(_)
\* text.split('\n')
SplitLines(text) ==
    LET k == FirstIndex(text, "\n")
    IN  IF k = 0 THEN <<text>>
        ELSE <<SubSeq(text, 1, k - 1)>> \o SplitLines(SubSeq(text, k + 1, Len(text)))

\* the first position from i on that holds a quote or a comma, Len(line) + 1
\* when there is none: the characters before it are appended to cur as they are
NextMark(line, i) ==
    LET marks == {k \in i..Len(line) : CharAt(line, k) \in {"\"", ","}}
    IN  IF marks = {} THEN Len(line) + 1
        ELSE CHOOSE k \in marks : \A m \in marks : k <= m

RECURSIVE parseLineFrom(_, _, _, _, _)
\* the loop of parseLine from character i on
parseLineFrom(line, i, cur, inQuotes, out) ==
    LET k == NextMark(line, i)
        plain == cur \o SubSeq(line, i, k - 1)
    IN  IF k > Len(line) THEN Append(out, plain)
        ELSE IF CharAt(line, k) = "\""
        THEN IF inQuotes /\ k < Len(line) /\ CharAt(line, k + 1) = "\""
             THEN parseLineFrom(line, k + 2, plain \o "\"", inQuotes, out)
             ELSE parseLineFrom(line, k + 1, plain, ~inQuotes, out)
        ELSE IF ~inQuotes
        THEN parseLineFrom(line, k + 1, "", inQuotes, Append(out, plain))
        ELSE parseLineFrom(line, k + 1, plain \o ",", inQuotes, out)

\* parseLine: the cells of one line, commas inside quotes kept
parseLine(line) == parseLineFrom(line, 1, "", FALSE, <<>>)

IsSpace(c) == c \in {" ", "\t", "\n", "\r"}

RECURSIVE trimStart(_)
trimStart(s) ==
    IF s # "" /\ IsSpace(CharAt(s, 1)) THEN trimStart(SubSeq(s, 2, Len(s))) ELSE s

RECURSIVE trimEnd(_)
trimEnd(s) ==
    IF s # "" /\ IsSpace(CharAt(s, Len(s))) THEN trimEnd(SubSeq(s, 1, Len(s) - 1)) ELSE s

\* the cell as it is read
untrimmed(s) == s

\* String.prototype.trim
trim(s) == trimEnd(trimStart(s))

RECURSIVE trimCells(_)
\* the cells of one line, each trimmed
trimCells(cells) ==
    IF cells = <<>> THEN <<>> ELSE <<trim(Head(cells))>> \o trimCells(Tail(cells))

RECURSIVE parseLines(_)
\* the cells of every non-empty line
parseLines(lines) ==
    IF lines = <<>> THEN <<>>
    ELSE IF Head(lines) = "" THEN parseLines(Tail(lines))
    ELSE <<trimCells(parseLine(Head(lines)))>> \o parseLines(Tail(lines))

\* parseCsv as far as the header cells and the cells of each non-empty line
\* below the header, all trimmed; RowObject makes the row objects of them
parseCsv(text) ==
    LET lines == SplitLines(NormalizeNewlines(text))
    IN  [headers |-> trimCells(parseLine(Head(lines))),
         rows |-> parseLines(Tail(lines))]

-----------------------------------------------------------------------------
(* Work sessions and their JSON text                                       *)

Session(id, date, st, en, notes, ev) ==
    [id |-> id, date |-> date, startTime |-> st, endTime |-> en,
     notes |-> notes, calendarEventId |-> ev]

S1 == Session("s1", "2024-01-05", "09:00", "10:00", "kickoff", "ev1")
S2 == Session("s2", "2024-01-06", "13:00", "14:30", UNDEFINED, UNDEFINED)
S3 == Session("s3", "2024-01-07", "08:00", "08:30", "", "ev3")

SessionLists == {<<>>, <<S1>>, <<S2>>, <<S1, S2>>, <<S2, S3>>}

\* JSON.stringify of one property: a property whose value is undefined is left out
JsonProp(key, val) ==
    IF val = UNDEFINED THEN "" ELSE "\"" \o key \o "\":\"" \o val \o "\","

JsonSession(s) ==
    "{" \o JsonProp("id", s.id) \o JsonProp("date", s.date)
        \o JsonProp("startTime", s.startTime) \o JsonProp("endTime", s.endTime)
        \o JsonProp("notes", s.notes)
        \o JsonProp("calendarEventId", s.calendarEventId) \o "}"

RECURSIVE JsonElems(_)
JsonElems(l) == IF l = <<>> THEN "" ELSE JsonSession(Head(l)) \o JsonElems(Tail(l))

\* JSON.stringify(list)
JSONstringify(l) == "[" \o JsonElems(l) \o "]"

\* what the session form holds when it is submitted
FormData(date, st, en, notes) ==
    [date |-> date, startTime |-> st, endTime |-> en, notes |-> notes]

FormA == FormData("2024-01-05", "09:00", "10:00", "")
FormB == FormData("2024-01-06", "13:00", "14:30", "kickoff")
\* a form with no end time
FormNoEnd == FormData("2024-01-06", "13:00", "", "")
Forms == {FormA, FormB, FormNoEnd}

SessionId(n) == "session-" \o ToString(n)
EventId(n) == "ev" \o ToString(n)

\* the sessions the form can make
FormSessions(n) ==
    { Session(SessionId(n), f.date, f.startTime, f.endTime, f.notes, ev) :
        f \in {FormA, FormB}, ev \in {UNDEFINED} \cup {EventId(k) : k \in 1..n} }

RECURSIVE FormSessionListsFrom(_)
\* the lists of such sessions numbered n and above, in the order they were added
FormSessionListsFrom(n) ==
    IF n > MaxSessions THEN {<<>>}
    ELSE LET rest == FormSessionListsFrom(n + 1)
         IN  rest \cup { <<x>> \o l : x \in FormSessions(n), l \in rest }

\* every list with its JSON text
JsonTexts ==
    { [text |-> JSONstringify(l), v |-> l] : l \in SessionLists \cup FormSessionListsFrom(1) }

\* JSON.parse(text): the list whose JSON text it is, or a SyntaxError
JSONparse(text) ==
    IF \E e \in JsonTexts : e.text = text
    THEN [ok |-> TRUE, v |-> (CHOOSE e \in JsonTexts : e.text = text).v]
    ELSE [ok |-> FALSE, v |-> <<>>]

-----------------------------------------------------------------------------
(* Work items                                                              *)

WorkItem(id, name, owner, status, priority, sd, dd, progress, notes, ca, col, ws) ==
    [id |-> id, name |-> name, owner |-> owner, status |-> status,
     priority |-> priority, startDate |-> sd, dueDate |-> dd,
     progress |-> progress, notes |-> notes, createdAt |-> ca,
     collapsed |-> col, workSessions |-> ws]

NoItem == WorkItem("", "", "", "", "", "", "", UndefNum, "", "", TRUE, NoSessions)

NoRow == <<>>

\* the inputs of the codec: every combination of present, blank and missing fields
CodecItems ==
    { WorkItem("id-1", name, "Zak", status, priority, sd, dd, progress, notes, ca,
               col, ws) :
        name \in {"", "Alpha"},
        status \in {"", "In Progress", "Completed"},
        priority \in {"", "High"},
        sd \in {UNDEFINED, "", "2024-01-05"},
        dd \in {UNDEFINED, "2024-02-01"},
        progress \in {UndefNum, Num(0), Num(50), Num(MaxInt)},
        notes \in {UNDEFINED, "note"},
        ca \in {UNDEFINED, "", ISO(0)},
        col \in BOOLEAN,
        ws \in {NoSessions, Sess(<<>>), Sess(<<S1>>), Sess(<<S1, S2>>)} }

-----------------------------------------------------------------------------
(* The row codec                                                           *)

\* item.progress?.toString() || '0'
ProgressCell(p) ==
    IF ~p.def THEN "0"
    ELSE IF p.nan THEN "NaN"
    ELSE NumToString(p.v)

\* the row with the created-at cell always set to the time of the sync
EncodeRowFreshCreatedAt(item, t) ==
    << item.name, item.owner, item.status, item.priority,
       OrElse(item.startDate, ""), OrElse(item.dueDate, ""),
       ProgressCell(item.progress), OrElse(item.notes, ""),
       ISO(t), ISO(t),
       JSONstringify(IF item.workSessions.def THEN item.workSessions.v ELSE <<>>) >>

\* the row syncWorkloadItems builds for one item at clock value t
EncodeRow(item, t) ==
    << item.name,
       item.owner,
       item.status,
       item.priority,
       OrElse(item.startDate, ""),
       OrElse(item.dueDate, ""),
       ProgressCell(item.progress),
       OrElse(item.notes, ""),
       OrElse(item.createdAt, ISO(t)),
       ISO(t),
       JSONstringify(IF item.workSessions.def THEN item.workSessions.v ELSE <<>>) >>

\* row[i] of a row that may be shorter than i cells (0-based index i)
Cell(row, i) == IF i + 1 <= Len(row) THEN row[i + 1] ELSE UNDEFINED

\* the sessions looked for one column too far to the right
DecodeSessionsOffByOne(row) ==
    IF Len(row) > 11 /\ ~Falsy(row[12])
    THEN (IF JSONparse(row[12]).ok THEN JSONparse(row[12]).v ELSE <<>>)
    ELSE <<>>

\* the workSessions value loadWorkloadItems computes for a row
DecodeSessions(row) ==
    IF Len(row) > 10 /\ ~Falsy(row[11])
    THEN (IF JSONparse(row[11]).ok THEN JSONparse(row[11]).v ELSE <<>>)
    ELSE <<>>

\* the item loadWorkloadItems builds from the row at 0-based index `index`
DecodeRow(bucketKey, row, index, t) ==
    [id |-> bucketKey \o "-" \o ToString(index),
     name |-> OrElse(Cell(row, 0), ""),
     owner |-> OrElse(Cell(row, 1), ""),
     status |-> OrElse(Cell(row, 2), "Not Started"),
     priority |-> OrElse(Cell(row, 3), "Medium"),
     startDate |-> OrElse(Cell(row, 4), ""),
     dueDate |-> OrElse(Cell(row, 5), ""),
     progress |-> ParseInt(OrElse(Cell(row, 6), "0")),
     notes |-> OrElse(Cell(row, 7), ""),
     createdAt |-> OrElse(Cell(row, 8), ISO(t)),
     collapsed |-> TRUE,
     workSessions |-> Sess(DecodeSessions(row)),
     calendarSynced |-> Len(DecodeSessions(row)) > 0]

-----------------------------------------------------------------------------
(* The spreadsheet: sheets, ranges and the three requests the service uses *)

Buckets == {"profiles", "contracts", "projects"}
TICKETS == "tickets"
Tasks == Buckets \cup {TICKETS}

SHEET_NAMES ==
    [PROFILES |-> "Profiles", CONTRACTS |-> "Contracts",
     PROJECTS |-> "Main Projects", TICKETS |-> "Tickets Summary"]

Sheets == {SHEET_NAMES.PROFILES, SHEET_NAMES.CONTRACTS, SHEET_NAMES.PROJECTS,
           SHEET_NAMES.TICKETS}

\* every bucket sent to the table of the default case
getSheetNameDefaultOnly(bucketKey) == SHEET_NAMES.PROFILES

getSheetNameForBucket(bucketKey) ==
    CASE bucketKey = "profiles" -> SHEET_NAMES.PROFILES
      [] bucketKey = "contracts" -> SHEET_NAMES.CONTRACTS
      [] bucketKey = "projects" -> SHEET_NAMES.PROJECTS
      [] OTHER -> SHEET_NAMES.PROFILES

\* the sheet a task works on
SheetOf(t) == IF t = TICKETS THEN SHEET_NAMES.TICKETS ELSE getSheetNameForBucket(t)

ItemHeader == <<"Name", "Owner", "Status", "Priority", "Start Date", "Due Date",
                "Progress", "Notes", "Created At", "Updated At", "Calendar Sessions">>
TicketHeader == <<"Metric", "Value", "Last Updated", "Source File", "Import Type",
                  "Breakdown">>

HeaderOf(sheet) == IF sheet = SHEET_NAMES.TICKETS THEN TicketHeader ELSE ItemHeader

Max(a, b) == IF a >= b THEN a ELSE b

RECURSIVE TrimRow(_)
\* a row without its trailing empty cells
TrimRow(row) ==
    IF row # <<>> /\ row[Len(row)] = "" THEN TrimRow(SubSeq(row, 1, Len(row) - 1))
    ELSE row

RECURSIVE TrimRows(_)
\* a list of rows without its trailing empty rows
TrimRows(rows) ==
    IF rows # <<>> /\ rows[Len(rows)] = <<>> THEN TrimRows(SubSeq(rows, 1, Len(rows) - 1))
    ELSE rows

\* spreadsheets.values.clear of the range <sheet>!A<fromRow>:<last column>
SheetsClear(grid, fromRow) == SubSeq(grid, 1, Max(0, fromRow - 1))

\* spreadsheets.values.update of the rows `rows` starting at row fromRow:
\* the rows of the range are overwritten, every other row is kept
SheetsUpdate(grid, fromRow, rows) ==
    [i \in 1..Max(Len(grid), fromRow - 1 + Len(rows)) |->
        IF i >= fromRow /\ i < fromRow + Len(rows) THEN rows[i - fromRow + 1]
        ELSE IF i <= Len(grid) THEN grid[i]
        ELSE <<>>]

\* response.result.values of spreadsheets.values.get from row fromRow down:
\* trailing empty cells and trailing empty rows are not returned
SheetsGet(grid, fromRow) ==
    LET below == SubSeq(grid, fromRow, Len(grid))
    IN  TrimRows([i \in 1..Len(below) |-> TrimRow(below[i])])

\* the data region of a sheet as the service reads it
DataRegion(sheet) == SheetsGet(remote[sheet], 2)

-----------------------------------------------------------------------------
(* The ticket summary and its rows                                         *)

\* tickets.breakdown === undefined
NoBreakdown == [def |-> FALSE, v |-> <<>>]

TicketSummary(total, completed, open, pending, cr, er, at, meta) ==
    [present |-> TRUE, total |-> total, completed |-> completed, open |-> open,
     pending |-> pending, clientResolved |-> cr, employeeResolved |-> er,
     lastImportedAt |-> at, meta |-> meta, breakdown |-> NoBreakdown]

\* store.tickets === undefined
NoTickets ==
    [present |-> FALSE, total |-> UndefNum, completed |-> UndefNum,
     open |-> UndefNum, pending |-> UndefNum, clientResolved |-> UndefNum,
     employeeResolved |-> UndefNum, lastImportedAt |-> UNDEFINED, meta |-> UNDEFINED,
     breakdown |-> NoBreakdown]

defaultTickets ==
    TicketSummary(Num(0), Num(0), Num(0), Num(0), UndefNum, UndefNum, UNDEFINED, UNDEFINED)

\* n?.toString() || '0'
CountCell(n) == IF ~n.def THEN "0" ELSE IF n.nan THEN "NaN" ELSE NumToString(n.v)

\* the six metric rows written whether or not the resolved counts are defined
TicketRowsAlwaysSix(tickets) ==
    LET at == OrElse(tickets.lastImportedAt, "")
    IN  << <<"Total Submitted", CountCell(tickets.total), at, "",
             OrElse(tickets.meta, ""), "">>,
           <<"Completed", CountCell(tickets.completed), at, "", "", "">>,
           <<"Open", CountCell(tickets.open), at, "", "", "">>,
           <<"Pending", CountCell(tickets.pending), at, "", "", "">>,
           <<"Client Tickets Resolved", CountCell(tickets.clientResolved), at, "", "", "">>,
           <<"Employee Tickets Resolved", CountCell(tickets.employeeResolved), at, "", "",
             "">> >>

\* the rows syncTicketsSummary builds
TicketRows(tickets) ==
    LET at == OrElse(tickets.lastImportedAt, "")
        base == << <<"Total Submitted", CountCell(tickets.total), at, "",
                     OrElse(tickets.meta, ""), "">>,
                   <<"Completed", CountCell(tickets.completed), at, "", "", "">>,
                   <<"Open", CountCell(tickets.open), at, "", "", "">>,
                   <<"Pending", CountCell(tickets.pending), at, "", "", "">> >>
        client == IF tickets.clientResolved.def
                  THEN << <<"Client Tickets Resolved",
                            CountCell(tickets.clientResolved), at, "", "", "">> >>
                  ELSE <<>>
        employee == IF tickets.employeeResolved.def
                    THEN << <<"Employee Tickets Resolved",
                              CountCell(tickets.employeeResolved), at, "", "", "">> >>
                    ELSE <<>>
    IN  base \o client \o employee

RECURSIVE FoldTicketRows(_, _)
\* the rows.forEach of loadTicketsSummary: each row sets the counter its metric names
FoldTicketRows(summary, rows) ==
    IF rows = <<>> THEN summary
    ELSE LET row == Head(rows)
             metric == Cell(row, 0)
             value == ParseInt(OrElse(Cell(row, 1), "0"))
             next ==
               CASE metric = "Total Submitted" ->
                        [summary EXCEPT !.total = value,
                                        !.lastImportedAt = Cell(row, 2),
                                        !.meta = Cell(row, 4)]
                 [] metric = "Completed" -> [summary EXCEPT !.completed = value]
                 [] metric = "Open" -> [summary EXCEPT !.open = value]
                 [] metric = "Pending" -> [summary EXCEPT !.pending = value]
                 [] metric = "Client Tickets Resolved" ->
                        [summary EXCEPT !.clientResolved = value]
                 [] metric = "Employee Tickets Resolved" ->
                        [summary EXCEPT !.employeeResolved = value]
                 [] OTHER -> summary
         IN  FoldTicketRows(next, Tail(rows))

\* what loadTicketsSummary returns for the rows it read
DecodeTickets(rows) ==
    IF rows = <<>>
    THEN TicketSummary(Num(0), Num(0), Num(0), Num(0), UndefNum, UndefNum,
                       "No data imported yet", "Add ticket data to see summary")
    ELSE FoldTicketRows(defaultTickets, rows)

\* what loadTicketsSummary returns when the read fails
TicketsPlaceholder ==
    TicketSummary(Num(0), Num(0), Num(0), Num(0), UndefNum, UndefNum,
                  "Error loading data", "Check sheet permissions")

\* what loadWorkloadItems returns for the rows it read
DecodeRows(bucketKey, rows, t) ==
    [i \in 1..Len(rows) |-> DecodeRow(bucketKey, rows[i], i - 1, t)]

\* the rows prepared last item first
EncodeRowsReversed(items, t) ==
    [i \in 1..Len(items) |-> EncodeRow(items[Len(items) + 1 - i], t)]

\* the values syncWorkloadItems prepares
EncodeRows(items, t) == [i \in 1..Len(items) |-> EncodeRow(items[i], t)]

-----------------------------------------------------------------------------
(* Sample data                                                             *)

\* an item as the row editor leaves it: every field filled in
ItemA == WorkItem("a", "Alpha", "Zak", "In Progress", "High", "2024-01-05",
                  "2024-02-01", Num(50), "note", ISO(0), TRUE, Sess(<<S1>>))
\* an item as addItem creates it: no progress, notes, createdAt or sessions
ItemB == WorkItem("b", "Untitled", "Dagan", "In Progress", "Medium", "2024-01-05",
                  "2024-01-12", UndefNum, UNDEFINED, UNDEFINED, FALSE, NoSessions)
\* an item as addRow creates it
ItemC == WorkItem("c", "", "", "Not Started", "Medium", "", "", Num(0), "", ISO(0),
                  TRUE, NoSessions)
\* an item whose status and priority were blanked
ItemD == WorkItem("d", "Delta", "IT Team", "", "", UNDEFINED, "2024-03-01",
                  Num(100), "", ISO(0), TRUE, Sess(<<S1, S2>>))

TicketsA == TicketSummary(Num(5), Num(2), Num(2), Num(1), UndefNum, UndefNum,
                          ISO(0), "ticket-list")
TicketsB == TicketSummary(Num(15), Num(12), Num(0), Num(0), Num(4), Num(8),
                          ISO(0), "group-summary")

Store(profiles, contracts, projects, tickets) ==
    [profiles |-> profiles, contracts |-> contracts, projects |-> projects,
     tickets |-> tickets]

defaultStore == Store(<<>>, <<>>, <<>>, defaultTickets)

\* the stores an operation may start from
StoreInits ==
    { defaultStore,
      Store(<<ItemA>>, <<ItemB, ItemC>>, <<>>, TicketsA),
      Store(<<ItemC, ItemA>>, <<ItemD>>, <<ItemB>>, TicketsB),
      Store(<<ItemA, ItemC>>, <<>>, <<ItemA>>, NoTickets) }

\* a row of a sheet written before the sessions column existed (10 cells, the
\* trailing ones empty), and a row another writer typed in
OldRow == <<"Legacy", "Zak", "", "", "2023-12-01", "", "abc", "", "", "">>
ForeignRow == <<"Foreign", "Eve", "Completed", "Low", "", "", "33.9", "x", ISO(0),
                ISO(0), "not json">>
ForeignTicketRow == <<"Open", "7", "", "", "", "">>

ForeignRowOf(sheet) == IF sheet = SHEET_NAMES.TICKETS THEN ForeignTicketRow ELSE ForeignRow

Sheet(rows) == <<ItemHeader>> \o rows

\* the spreadsheets an operation may start from
RemoteInits ==
    { [s \in Sheets |-> <<HeaderOf(s)>>],
      [s \in Sheets |->
          CASE s = SHEET_NAMES.PROFILES -> Sheet(<<OldRow, EncodeRow(ItemA, 0), ForeignRow>>)
            [] s = SHEET_NAMES.CONTRACTS -> Sheet(<<EncodeRow(ItemD, 0)>>)
            [] s = SHEET_NAMES.PROJECTS -> Sheet(<<>>)
            [] OTHER -> <<TicketHeader>> \o TicketRows(TicketsB)] }

-----------------------------------------------------------------------------
(* The service calls: each runs to its first await when it is called, and  *)
(* continues when the request it awaits completes                          *)

IdleTask ==
    [pc |-> "idle", clear |-> "none", write |-> "none", read |-> "none",
     values |-> <<>>, error |-> "none"]

\* this.isAuthenticated && !!this.config?.spreadsheetId
isConnected == isAuthenticated /\ configured

\* syncWorkloadItems without its clear: the write is the first request
syncWorkloadItemsNoClear(bucketKey, items) ==
    IF ~configured \/ ~isAuthenticated
    THEN [IdleTask EXCEPT !.pc = "rejected", !.error = "No spreadsheet configured"]
    ELSE [IdleTask EXCEPT !.pc = "write", !.write = "pending",
                          !.values = EncodeRows(items, now)]

\* syncWorkloadItems with the clear not awaited: the write goes out beside it
syncWorkloadItemsNoAwait(bucketKey, items) ==
    IF ~configured \/ ~isAuthenticated
    THEN [IdleTask EXCEPT !.pc = "rejected", !.error = "No spreadsheet configured"]
    ELSE [IdleTask EXCEPT !.pc = "clear", !.clear = "pending", !.write = "pending",
                          !.values = EncodeRows(items, now)]

\* syncWorkloadItems up to its first await: the two guards, the rows, the clear
syncWorkloadItems(bucketKey, items) ==
    IF ~configured
    THEN [IdleTask EXCEPT !.pc = "rejected", !.error = "No spreadsheet configured"]
    ELSE IF ~isAuthenticated
    THEN [IdleTask EXCEPT !.pc = "rejected",
                          !.error = "Not authenticated with Google Sheets"]
    ELSE [IdleTask EXCEPT !.pc = "clear", !.clear = "pending",
                          !.values = EncodeRows(items, now)]

\* syncTicketsSummary up to its first await
syncTicketsSummary(tickets) ==
    IF ~configured
    THEN [IdleTask EXCEPT !.pc = "rejected", !.error = "No spreadsheet configured"]
    ELSE [IdleTask EXCEPT !.pc = "clear", !.clear = "pending",
                          !.values = TicketRows(tickets)]

\* loadWorkloadItems and loadTicketsSummary up to their first await
loadWorkloadItems(bucketKey) ==
    IF ~configured
    THEN [IdleTask EXCEPT !.pc = "resolved"]
    ELSE [IdleTask EXCEPT !.pc = "read", !.read = "pending"]

loadTicketsSummary ==
    IF ~configured
    THEN [IdleTask EXCEPT !.pc = "resolved"]
    ELSE [IdleTask EXCEPT !.pc = "read", !.read = "pending"]

\* the continuation of a sync call after its clear: the write, when there is
\* something to write (the ticket summary always writes)
AfterClear(t, tk) ==
    IF t = TICKETS \/ Len(tk.values) > 0
    THEN [tk EXCEPT !.clear = "ok", !.pc = "write", !.write = "pending"]
    ELSE [tk EXCEPT !.clear = "ok", !.pc = "resolved"]

\* the clear request of task t is carried out and answered
ClearOk(t) ==
    /\ task[t].clear = "pending"
    /\ remote' = [remote EXCEPT ![SheetOf(t)] = SheetsClear(@, 2)]
    /\ task' = [task EXCEPT ![t] = AfterClear(t, @)]
    /\ UNCHANGED <<appVars, codecVars, csvVars, sessVars, now, store, configured, isAuthenticated, op, phase,
                   snap, loaded, loadedTickets, interfered, callBucket, last>>

\* the clear request of task t fails: the call rethrows
ClearFail(t) ==
    /\ task[t].clear = "pending"
    /\ task' = [task EXCEPT ![t] = [@ EXCEPT !.clear = "failed", !.pc = "rejected",
                                             !.error = "transport"]]
    /\ UNCHANGED <<appVars, codecVars, csvVars, sessVars, now, store, remote, configured, isAuthenticated, op,
                   phase, snap, loaded, loadedTickets, interfered, callBucket, last>>

\* the write request of task t is carried out and answered
WriteOk(t) ==
    /\ task[t].write = "pending"
    /\ remote' = [remote EXCEPT ![SheetOf(t)] = SheetsUpdate(@, 2, task[t].values)]
    /\ task' = [task EXCEPT ![t] = [@ EXCEPT !.write = "ok", !.pc = "resolved"]]
    /\ UNCHANGED <<appVars, codecVars, csvVars, sessVars, now, store, configured, isAuthenticated, op, phase,
                   snap, loaded, loadedTickets, interfered, callBucket, last>>

\* the write request of task t fails and the call swallows the error
WriteFailSwallowed(t) ==
    /\ task[t].write = "pending"
    /\ task' = [task EXCEPT ![t] = [@ EXCEPT !.write = "failed", !.pc = "resolved"]]
    /\ UNCHANGED <<appVars, codecVars, csvVars, sessVars, now, store, remote, configured, isAuthenticated, op,
                   phase, snap, loaded, loadedTickets, interfered, callBucket, last>>

\* the write request of task t fails: the call rethrows
WriteFail(t) ==
    /\ task[t].write = "pending"
    /\ task' = [task EXCEPT ![t] = [@ EXCEPT !.write = "failed", !.pc = "rejected",
                                             !.error = "transport"]]
    /\ UNCHANGED <<appVars, codecVars, csvVars, sessVars, now, store, remote, configured, isAuthenticated, op,
                   phase, snap, loaded, loadedTickets, interfered, callBucket, last>>

\* the read request of task t is answered: the rows are decoded and returned
ReadOk(t) ==
    /\ task[t].read = "pending"
    /\ task' = [task EXCEPT ![t] = [@ EXCEPT !.read = "ok", !.pc = "resolved"]]
    /\ IF t = TICKETS
       THEN /\ loadedTickets' = DecodeTickets(DataRegion(SheetOf(t)))
            /\ UNCHANGED loaded
       ELSE /\ loaded' = [loaded EXCEPT ![t] = DecodeRows(t, DataRegion(SheetOf(t)), now)]
            /\ UNCHANGED loadedTickets
    /\ UNCHANGED <<appVars, codecVars, csvVars, sessVars, now, store, remote, configured, isAuthenticated, op,
                   phase, snap, interfered, callBucket, last>>

\* a failed read rethrown instead of answered with the empty list
ReadFailedRethrown(tk) == [tk EXCEPT !.read = "failed", !.pc = "rejected"]

\* what loadWorkloadItems does with a failed read
ReadFailed(tk) == [tk EXCEPT !.read = "failed", !.pc = "resolved"]

\* the read request of task t fails: the catch branch returns a fallback
ReadFail(t) ==
    /\ task[t].read = "pending"
    /\ task' = [task EXCEPT ![t] = ReadFailed(@)]
    /\ IF t = TICKETS
       THEN /\ loadedTickets' = TicketsPlaceholder
            /\ UNCHANGED loaded
       ELSE /\ loaded' = [loaded EXCEPT ![t] = <<>>]
            /\ UNCHANGED loadedTickets
    /\ UNCHANGED <<appVars, codecVars, csvVars, sessVars, now, store, remote, configured, isAuthenticated, op,
                   phase, snap, interfered, callBucket, last>>

-----------------------------------------------------------------------------
(* The callers                                                             *)

IdleTasks == [t \in Tasks |-> IdleTask]
NoSync == [valid |-> FALSE, items |-> <<>>, rows |-> <<>>]
NoLoaded == [b \in Buckets |-> <<>>]
NoInterference == [t \in Tasks |-> FALSE]

Settled(tk) == tk.pc \in {"idle", "resolved", "rejected"}
AllResolved == \A t \in Tasks : task[t].pc = "resolved"
AnyRejected == \E t \in Tasks : task[t].pc = "rejected"
AnyFailedRequest ==
    \E t \in Tasks : "failed" \in {task[t].clear, task[t].write, task[t].read}

\* syncToSheets up to its await: nothing when not connected, else the four
\* sync calls of Promise.all, each started before any request is answered
syncToSheets ==
    /\ phase = "idle"
    /\ op' = "syncToSheets"
    /\ snap' = store
    /\ interfered' = NoInterference
    /\ IF ~isConnected
       THEN /\ phase' = "done"
            /\ task' = IdleTasks
       ELSE /\ phase' = "running"
            /\ task' = [t \in Tasks |->
                          IF t = TICKETS
                          THEN (IF store.tickets.present
                                THEN syncTicketsSummary(store.tickets)
                                ELSE [IdleTask EXCEPT !.pc = "resolved"])
                          ELSE syncWorkloadItems(t, store[t])]
    /\ UNCHANGED <<appVars, codecVars, csvVars, sessVars, now, store, remote, configured, isAuthenticated,
                   loaded, loadedTickets, callBucket, last>>

\* loadFromSheets up to its await: nothing when not connected, else the four
\* load calls of Promise.all
loadFromSheets ==
    /\ phase = "idle"
    /\ op' = "loadFromSheets"
    /\ snap' = store
    /\ interfered' = NoInterference
    /\ loaded' = NoLoaded
    /\ loadedTickets' = NoTickets
    /\ IF ~isConnected
       THEN /\ phase' = "done"
            /\ task' = IdleTasks
       ELSE /\ phase' = "running"
            /\ task' = [t \in Tasks |->
                          IF t = TICKETS THEN loadTicketsSummary
                          ELSE loadWorkloadItems(t)]
    /\ UNCHANGED <<appVars, codecVars, csvVars, sessVars, now, store, remote, configured, isAuthenticated,
                   callBucket, last>>

\* the setStore of loadFromSheets taking every loaded list, empty or not
loadFromSheetsApplyAlways ==
    /\ op = "loadFromSheets"
    /\ phase = "running"
    /\ AllResolved
    /\ store' = [profiles |-> loaded["profiles"],
                 contracts |-> loaded["contracts"],
                 projects |-> loaded["projects"],
                 tickets |-> IF loadedTickets.present
                             THEN loadedTickets ELSE store.tickets]
    /\ phase' = "done"
    /\ UNCHANGED <<appVars, codecVars, csvVars, sessVars, now, remote, configured,
                   isAuthenticated, op, snap, task, loaded, loadedTickets, interfered,
                   callBucket, last>>

\* the setStore of loadFromSheets, once the four loads have returned
loadFromSheetsApply ==
    /\ op = "loadFromSheets"
    /\ phase = "running"
    /\ AllResolved
    /\ store' = [profiles |-> IF Len(loaded["profiles"]) > 0
                              THEN loaded["profiles"] ELSE store.profiles,
                 contracts |-> IF Len(loaded["contracts"]) > 0
                               THEN loaded["contracts"] ELSE store.contracts,
                 projects |-> IF Len(loaded["projects"]) > 0
                              THEN loaded["projects"] ELSE store.projects,
                 tickets |-> IF loadedTickets.present
                             THEN loadedTickets ELSE store.tickets]
    /\ phase' = "done"
    /\ UNCHANGED <<appVars, codecVars, csvVars, sessVars, now, remote, configured, isAuthenticated, op, snap,
                   task, loaded, loadedTickets, interfered, callBucket, last>>

\* the await of syncToSheets is over: Promise.all resolved, or it rejected and
\* the catch logged the error; every call of the invocation has settled
syncToSheetsReturn ==
    /\ op = "syncToSheets"
    /\ phase = "running"
    /\ \A t \in Tasks : Settled(task[t])
    /\ phase' = "done"
    /\ UNCHANGED <<appVars, codecVars, csvVars, sessVars, now, store, remote, configured, isAuthenticated, op,
                   snap, task, loaded, loadedTickets, interfered, callBucket, last>>

\* saveAllToSheets and loadAllFromSheets up to their first service call:
\* initialize() and setSpecificSheet(), which configures the spreadsheet;
\* initialize() may reject
initializeAndSetSheet(name, ok) ==
    /\ phase = "idle"
    /\ op' = name
    /\ snap' = store
    /\ interfered' = NoInterference
    /\ loaded' = NoLoaded
    /\ loadedTickets' = NoTickets
    /\ task' = IdleTasks
    /\ IF ok
       THEN /\ configured' = TRUE
            /\ phase' = "running"
       ELSE /\ phase' = "done"
            /\ UNCHANGED configured
    /\ UNCHANGED <<appVars, codecVars, csvVars, sessVars, now, store, remote, isAuthenticated, callBucket, last>>

saveAllToSheets == \E ok \in BOOLEAN : initializeAndSetSheet("saveAllToSheets", ok)

loadAllFromSheets == \E ok \in BOOLEAN : initializeAndSetSheet("loadAllFromSheets", ok)

\* the order in which saveAllToSheets awaits the three buckets
SaveOrder == <<"profiles", "contracts", "projects">>

\* the bucket saveAllToSheets syncs next: the first one not yet started, once
\* every one before it has resolved
NextToSave(i) ==
    /\ task[SaveOrder[i]].pc = "idle"
    /\ \A j \in 1..(i - 1) : task[SaveOrder[j]].pc = "resolved"

\* saveAllToSheets goes on to its next await
saveAllToSheetsNext ==
    /\ op = "saveAllToSheets"
    /\ phase = "running"
    /\ \E i \in 1..Len(SaveOrder) :
          /\ NextToSave(i)
          /\ task' = [task EXCEPT ![SaveOrder[i]] =
                         syncWorkloadItems(SaveOrder[i], snap[SaveOrder[i]])]
    /\ UNCHANGED <<appVars, codecVars, csvVars, sessVars, now, store, remote, configured, isAuthenticated, op,
                   phase, snap, loaded, loadedTickets, interfered, callBucket, last>>

\* saveAllToSheets ends: the three syncs resolved, or one rejected and the catch
\* reported it
saveAllToSheetsReturn ==
    /\ op = "saveAllToSheets"
    /\ phase = "running"
    /\ \/ \A b \in Buckets : task[b].pc = "resolved"
       \/ AnyRejected
    /\ phase' = "done"
    /\ UNCHANGED <<appVars, codecVars, csvVars, sessVars, now, store, remote, configured, isAuthenticated, op,
                   snap, task, loaded, loadedTickets, interfered, callBucket, last>>

\* loadAllFromSheets issues its four loads
loadAllFromSheetsIssue ==
    /\ op = "loadAllFromSheets"
    /\ phase = "running"
    /\ \A t \in Tasks : task[t].pc = "idle"
    /\ task' = [t \in Tasks |->
                  IF t = TICKETS THEN loadTicketsSummary ELSE loadWorkloadItems(t)]
    /\ UNCHANGED <<appVars, codecVars, csvVars, sessVars, now, store, remote, configured, isAuthenticated, op,
                   phase, snap, loaded, loadedTickets, interfered, callBucket, last>>

\* the setProfiles, setContracts, setProjects and setTickets of loadAllFromSheets
loadAllFromSheetsApply ==
    /\ op = "loadAllFromSheets"
    /\ phase = "running"
    /\ AllResolved
    /\ store' = [profiles |-> loaded["profiles"],
                 contracts |-> loaded["contracts"],
                 projects |-> loaded["projects"],
                 tickets |-> loadedTickets]
    /\ phase' = "done"
    /\ UNCHANGED <<appVars, codecVars, csvVars, sessVars, now, remote, configured, isAuthenticated, op, snap,
                   task, loaded, loadedTickets, interfered, callBucket, last>>

-----------------------------------------------------------------------------
(* Parts shared by the specifications                                     *)

CodecIdle == cx = NoItem /\ crow = NoRow /\ cout = NoItem /\ cpc = "init"

\* no file has been imported
NoCsv == [headers |-> <<>>, rows |-> <<>>]
NoReduction ==
    [format |-> "none", total |-> 0, completed |-> 0, open |-> 0, pending |-> 0,
     clientResolved |-> 0, employeeResolved |-> 0, breakdown |-> <<>>]
CsvIdle == csvText = UNDEFINED /\ csv = NoCsv /\ reduction = NoReduction /\ imports = 0

\* no session, no event, the item's row in the sheet holding no session
NoSessionOp ==
    [op |-> "none", id |-> UNDEFINED, call |-> "none", accepted |-> FALSE, ok |-> FALSE,
     before |-> UNDEFINED, returned |-> UNDEFINED]
SessIdle ==
    /\ sessions = <<>>
    /\ events = {}
    /\ sheetRow = NoRow
    /\ sessionOp = NoSessionOp
    /\ deletedIds = {}
    /\ linked = {}
    /\ nextSession = 1

\* no operation on the store made, no second sync call
AppIdle == opCount = 0 /\ second = IdleTask

\* the service and the application at rest
ServiceIdle ==
    /\ store = defaultStore
    /\ remote = [s \in Sheets |-> <<HeaderOf(s)>>]
    /\ configured = FALSE
    /\ isAuthenticated = FALSE
    /\ op = "none"
    /\ phase = "idle"
    /\ snap = defaultStore
    /\ task = IdleTasks
    /\ loaded = NoLoaded
    /\ loadedTickets = NoTickets
    /\ interfered = NoInterference
    /\ callBucket = "none"
    /\ last = NoSync

\* time passes
Tick ==
    /\ now < MaxClock
    /\ now' = now + 1
    /\ UNCHANGED <<appVars, codecVars, csvVars, sessVars, svcVars>>

-----------------------------------------------------------------------------
(* Specification Spec: the application's save and load operations          *)

Init ==
    /\ CodecIdle
    /\ CsvIdle
    /\ SessIdle
    /\ AppIdle
    /\ now = 0
    /\ store \in StoreInits
    /\ remote \in RemoteInits
    /\ configured \in BOOLEAN
    /\ isAuthenticated \in BOOLEAN
    /\ op = "none"
    /\ phase = "idle"
    /\ snap = store
    /\ task = IdleTasks
    /\ loaded = NoLoaded
    /\ loadedTickets = NoTickets
    /\ interfered = NoInterference
    /\ callBucket = "none"
    /\ last = NoSync

Next ==
    \/ syncToSheets
    \/ syncToSheetsReturn
    \/ saveAllToSheets
    \/ saveAllToSheetsNext
    \/ saveAllToSheetsReturn
    \/ loadFromSheets
    \/ loadFromSheetsApply
    \/ loadAllFromSheets
    \/ loadAllFromSheetsIssue
    \/ loadAllFromSheetsApply
    \/ \E t \in Tasks : ClearOk(t)
    \/ \E t \in Tasks : ClearFail(t)
    \/ \E t \in Tasks : WriteOk(t)
    \/ \E t \in Tasks : WriteFail(t)
    \/ \E t \in Tasks : ReadOk(t)
    \/ \E t \in Tasks : ReadFail(t)

Spec == Init /\ [][Next]_vars

-----------------------------------------------------------------------------
(* Specification SpecService: the service's sync and load called directly, *)
(* one call after the other on one bucket, while the clock advances and    *)
(* another writer edits the sheet                                          *)

\* a direct call of syncWorkloadItems(callBucket, store[callBucket])
callSyncWorkloadItems ==
    /\ phase = "idle"
    /\ op' = "syncWorkloadItems"
    /\ phase' = "running"
    /\ snap' = store
    /\ interfered' = NoInterference
    /\ task' = [IdleTasks EXCEPT ![callBucket] =
                   syncWorkloadItems(callBucket, store[callBucket])]
    /\ UNCHANGED <<appVars, codecVars, csvVars, sessVars, now, store, remote, configured, isAuthenticated,
                   loaded, loadedTickets, callBucket, last>>

\* a direct call of loadWorkloadItems(callBucket)
callLoadWorkloadItems ==
    /\ phase = "idle"
    /\ op' = "loadWorkloadItems"
    /\ phase' = "running"
    /\ snap' = store
    /\ interfered' = NoInterference
    /\ loaded' = NoLoaded
    /\ task' = [IdleTasks EXCEPT ![callBucket] = loadWorkloadItems(callBucket)]
    /\ UNCHANGED <<appVars, codecVars, csvVars, sessVars, now, store, remote, configured, isAuthenticated,
                   loadedTickets, callBucket, last>>

\* the sync of the bucket that has just resolved, as the next call will find it
ThisSync ==
    [valid |-> TRUE, items |-> snap[callBucket],
     rows |-> DataRegion(SheetOf(callBucket))]

\* the direct call has settled and its result is with the caller
callReturn ==
    /\ op \in {"syncWorkloadItems", "loadWorkloadItems"}
    /\ phase = "running"
    /\ Settled(task[callBucket])
    /\ task[callBucket].pc # "idle"
    /\ phase' = "idle"
    /\ last' = IF op = "loadWorkloadItems" THEN last
               ELSE IF task[callBucket].pc = "resolved" /\ ~interfered[callBucket]
               THEN ThisSync
               ELSE NoSync
    /\ UNCHANGED <<appVars, codecVars, csvVars, sessVars, now, store, remote, configured, isAuthenticated, op,
                   snap, task, loaded, loadedTickets, interfered, callBucket>>

\* another tab or user adds a row below the last row of the bucket's sheet
ExternalWrite ==
    LET sheet == SheetOf(callBucket)
        foreign == {i \in 1..Len(remote[sheet]) : remote[sheet][i] = ForeignRowOf(sheet)}
    IN  /\ Cardinality(foreign) < MaxForeign
        /\ remote' = [remote EXCEPT ![sheet] = Append(@, ForeignRowOf(sheet))]
        /\ interfered' = [interfered EXCEPT ![callBucket] = TRUE]
        /\ last' = NoSync
        /\ UNCHANGED <<appVars, codecVars, csvVars, sessVars, now, store, configured, isAuthenticated, op, phase,
                       snap, task, loaded, loadedTickets, callBucket>>

InitService ==
    /\ CodecIdle
    /\ CsvIdle
    /\ SessIdle
    /\ AppIdle
    /\ now = 0
    /\ store \in StoreInits
    /\ remote \in RemoteInits
    /\ configured \in BOOLEAN
    /\ isAuthenticated \in BOOLEAN
    /\ op = "none"
    /\ phase = "idle"
    /\ snap = store
    /\ task = IdleTasks
    /\ loaded = NoLoaded
    /\ loadedTickets = NoTickets
    /\ interfered = NoInterference
    /\ callBucket \in Buckets
    /\ last = NoSync

NextService ==
    \/ callSyncWorkloadItems
    \/ callLoadWorkloadItems
    \/ callReturn
    \/ ExternalWrite
    \/ Tick
    \/ ClearOk(callBucket)
    \/ ClearFail(callBucket)
    \/ WriteOk(callBucket)
    \/ WriteFail(callBucket)
    \/ ReadOk(callBucket)
    \/ ReadFail(callBucket)

SpecService == InitService /\ [][NextService]_vars

-----------------------------------------------------------------------------
(* Specification SpecCodec: the codec applied to one item                  *)

CodecEncode ==
    /\ cpc = "init"
    /\ crow' = EncodeRow(cx, now)
    /\ cpc' = "encoded"
    /\ UNCHANGED <<appVars, cx, cout, now, svcVars, csvVars, sessVars>>

CodecDecode ==
    /\ cpc = "encoded"
    /\ cout' = DecodeRow("profiles", crow, 0, now)
    /\ cpc' = "decoded"
    /\ UNCHANGED <<appVars, cx, crow, now, svcVars, csvVars, sessVars>>

InitCodec ==
    /\ cx \in CodecItems
    /\ crow = NoRow
    /\ cout = NoItem
    /\ cpc = "init"
    /\ now = 0
    /\ ServiceIdle
    /\ CsvIdle
    /\ SessIdle
    /\ AppIdle

NextCodec == Tick \/ CodecEncode \/ CodecDecode

SpecCodec == InitCodec /\ [][NextCodec]_vars

-----------------------------------------------------------------------------
(* The ticket CSV import                                                   *)

\* r['status'] || r['ticket status'] || r['ticket_status'] || ''
StatusOf(r) ==
    OrElse(Get(r, "status"),
           OrElse(Get(r, "ticket status"), OrElse(Get(r, "ticket_status"), "")))

\* the counter a row is added to when the number in its cell is not looked at
ClassifyByTextOnly(raw) ==
    LET lower == toLowerCase(raw)
    IN  IF includes(lower, "resolved") \/ includes(lower, "closed")
           \/ includes(lower, "complete") THEN "completed"
        ELSE IF includes(lower, "pending") \/ includes(lower, "waiting") THEN "pending"
        ELSE "open"

\* the counter the loop of the TicketList branch adds a row to
Classify(raw) ==
    LET lower == toLowerCase(raw)
        numeric == Number(lower)
        status == IF NumberIsFinite(numeric) /\ lower # "" THEN numeric ELSE UndefNum
        isCompleted == \/ status = Num(4) \/ status = Num(5)
                       \/ includes(lower, "resolved") \/ includes(lower, "closed")
                       \/ includes(lower, "complete")
        isPending == \/ status = Num(3)
                     \/ includes(lower, "pending") \/ includes(lower, "waiting")
        isOpen == status = Num(2) \/ includes(lower, "open")
    IN  IF isCompleted THEN "completed"
        ELSE IF isPending THEN "pending"
        ELSE IF isOpen THEN "open"
        ELSE "open"

\* a row added to every counter whose test its status passes
CountedEveryMatch(norm, counter) ==
    Cardinality({i \in 1..Len(norm) :
        LET lower == toLowerCase(StatusOf(norm[i]))
            numeric == Number(lower)
            status == IF NumberIsFinite(numeric) /\ lower # "" THEN numeric ELSE UndefNum
            isCompleted == \/ status = Num(4) \/ status = Num(5)
                           \/ includes(lower, "resolved") \/ includes(lower, "closed")
                           \/ includes(lower, "complete")
            isPending == \/ status = Num(3)
                         \/ includes(lower, "pending") \/ includes(lower, "waiting")
            isOpen == status = Num(2) \/ includes(lower, "open")
        IN  CASE counter = "completed" -> isCompleted
              [] counter = "pending" -> isPending
              [] OTHER -> isOpen \/ ~(isCompleted \/ isPending)})

\* how many rows of norm the loop adds to the counter
Counted(norm, counter) ==
    Cardinality({i \in 1..Len(norm) : Classify(StatusOf(norm[i])) = counter})

RECURSIVE SumSeq(_)
SumSeq(q) == IF q = <<>> THEN 0 ELSE Head(q) + SumSeq(Tail(q))

\* Number((r[col] || '').toString().replace(/,/g, '')) || 0
NumericCell(r, col) ==
    LET v == Number(RemoveCommas(OrElse(Get(r, col), "")))
    IN  IF v.nan THEN 0 ELSE v.v

\* the column sums taken over the first row only
SumColumnsFirstRow(norm, cols) ==
    IF norm = <<>> THEN 0
    ELSE SumSeq([j \in 1..Len(cols) |->
                    LET v == Number(RemoveCommas(OrElse(Get(norm[1], cols[j]), "")))
                    IN  IF v.nan THEN 0 ELSE v.v])

\* the sum, over the rows, of the columns of cols
SumColumns(norm, cols) ==
    SumSeq([i \in 1..Len(norm) |->
               SumSeq([j \in 1..Len(cols) |-> NumericCell(norm[i], cols[j])])])

\* s.tickets?.counter ?? 0
CounterOr0(s, counter) == IF s.present /\ s[counter].def THEN s[counter] ELSE Num(0)

\* what importTicketsCsv computes from the file before it touches the store:
\* the format it detects and the counters of that format's branch
Reduce(file) ==
    LET rows == [i \in 1..Len(file.rows) |-> RowObject(file.headers, file.rows[i])]
        norm == [i \in 1..Len(rows) |-> Normalize(rows[i])]
        headerKeys == IF norm = <<>> THEN <<>> ELSE Keys(norm[1])
        has(k) == \E i \in 1..Len(headerKeys) : headerKeys[i] = k
        hasStatus == has("status") \/ has("ticket status") \/ has("ticket_status")
        isGroupSummary ==
            /\ has("group name")
            /\ has("employee tickets") \/ has("client tickets") \/ has("internal tickets")
        numericCols == SelectSeq(headerKeys,
                           LAMBDA k : endsWith(k, "tickets") \/ endsWith(k, "resolved"))
        submitted == SelectSeq(numericCols,
                           LAMBDA k : endsWith(k, "tickets") /\ ~includes(k, "resolved"))
        clientResolved == SumColumns(norm, SelectSeq(numericCols,
                              LAMBDA k : k = "client tickets resolved"))
        employeeResolved == SumColumns(norm, SelectSeq(numericCols,
                                LAMBDA k : k = "employee tickets resolved"))
        breakdown ==
            [i \in 1..Len(norm) |->
                [label |-> OrElse(Get(norm[i], "group name"), "Group"),
                 values |-> [j \in 1..Len(numericCols) |->
                                <<numericCols[j], NumericCell(norm[i], numericCols[j])>>]]]
    IN  IF hasStatus THEN
            [format |-> "ticket-list", total |-> Len(norm),
             completed |-> Counted(norm, "completed"), open |-> Counted(norm, "open"),
             pending |-> Counted(norm, "pending"),
             clientResolved |-> 0, employeeResolved |-> 0, breakdown |-> <<>>]
        ELSE IF isGroupSummary THEN
            [format |-> "group-summary", total |-> SumColumns(norm, submitted),
             completed |-> clientResolved + employeeResolved, open |-> 0, pending |-> 0,
             clientResolved |-> clientResolved, employeeResolved |-> employeeResolved,
             breakdown |-> breakdown]
        ELSE
            [format |-> "unknown", total |-> Len(norm), completed |-> 0, open |-> 0,
             pending |-> 0, clientResolved |-> 0, employeeResolved |-> 0,
             breakdown |-> <<>>]

\* the prior total kept whatever the prior summary came from
KeptTotalAlways(s, total) == IF s.present /\ s.total.def THEN s.total ELSE Num(total)

\* the total always taken from the file
KeptTotalNever(s, total) == Num(total)

\* (s.tickets?.meta === 'group-summary' ? s.tickets.total : total) ?? total
KeptTotal(s, total) ==
    IF s.present /\ s.meta = "group-summary" /\ s.total.def THEN s.total ELSE Num(total)

\* the summary the setStore of the branch makes of store.tickets (s) and the
\* counters r at time t
StoredTickets(r, s, t) ==
    IF r.format = "ticket-list" THEN
        [(IF s.present THEN s
          ELSE TicketSummary(Num(r.total), Num(0), Num(0), Num(0), UndefNum, UndefNum,
                             UNDEFINED, UNDEFINED))
         EXCEPT !.total = KeptTotal(s, r.total),
                !.completed = Num(r.completed),
                !.open = Num(r.open),
                !.pending = Num(r.pending),
                !.lastImportedAt = ISO(t),
                !.meta = "ticket-list"]
    ELSE IF r.format = "group-summary" THEN
        [(IF s.present THEN s ELSE defaultTickets)
         EXCEPT !.total = Num(r.total),
                !.completed = Num(r.completed),
                !.clientResolved = Num(r.clientResolved),
                !.employeeResolved = Num(r.employeeResolved),
                !.open = CounterOr0(s, "open"),
                !.pending = CounterOr0(s, "pending"),
                !.lastImportedAt = ISO(t),
                !.meta = "group-summary",
                !.breakdown = [def |-> TRUE, v |-> r.breakdown]]
    ELSE
        TicketSummary(Num(r.total), CounterOr0(s, "completed"), CounterOr0(s, "open"),
                      CounterOr0(s, "pending"), UndefNum, UndefNum, ISO(t), UNDEFINED)

\* the files given to the import, as parseCsv splits them: the trimmed
\* header cells and the cells of every non-empty line below the header
CsvFile(headers, rows) == [headers |-> headers, rows |-> rows]

\* status cells of the generated ticket lists
StatusCells == {"2", "4", "7", "Waiting"}

\* every ticket list of 1..MaxRows rows over StatusCells
TicketListFiles ==
    { CsvFile(<<"Ticket", "Status">>,
              [i \in 1..Len(cells) |-> <<"T" \o ToString(i), cells[i]>>]) :
        cells \in UNION { [1..n -> StatusCells] : n \in 1..MaxRows } }

\* the ticket list with statuses 2, Resolved, 3, 5, open
ExampleFile ==
    CsvFile(<<"Ticket", "Status">>,
            << <<"T1", "2">>, <<"T2", "Resolved">>, <<"T3", "3">>, <<"T4", "5">>,
               <<"T5", "open">> >>)

\* text statuses, some with the keywords of several counters
KeywordFile ==
    CsvFile(<<"Ticket Status">>,
            << <<"CLOSED">>, <<"Completed">>, <<"Pending - closed">>,
               <<"waiting, then open">>, <<"Reopened">>, <<"In Progress">>,
               <<"Unresolved">> >>)

\* numeric statuses in other spellings, and texts that start with a number
NumberFile ==
    CsvFile(<<"ticket_status", "Owner">>,
            << <<"4.0", "Zak">>, <<"05", "Zak">>, <<"-3", "Eve">>, <<"3 open", "Eve">>,
               <<"10", "Eve">>, <<"0", "">>, <<"4 - pending">>, <<"+2", "Zak">> >>)

\* two status-like columns and an empty line
TwoStatusFile ==
    CsvFile(<<"status", "Ticket Status">>,
            << <<"", "4">>, <<"2", "Resolved">>, <<"">>, <<"3", "">> >>)

GroupHeaders == <<"Group Name", "Client Tickets", "Client Tickets Resolved",
                  "Employee Tickets", "Employee Tickets Resolved", "Internal Tickets">>

GroupFile ==
    CsvFile(GroupHeaders,
            << <<"Helpdesk", "10", "8", "5", "4", "2">>,
               <<"", "1,0", "x", "", "3", "1">> >>)

\* the group summary of one row "IT", 10, 5, 8, 4
ExampleGroupFile ==
    CsvFile(<<"group name", "employee tickets", "client tickets",
              "employee tickets resolved", "client tickets resolved">>,
            << <<"IT", "10", "5", "8", "4">> >>)

\* a group summary that has a status column as well
GroupStatusFile ==
    CsvFile(<<"Group Name", "Client Tickets", "Status">>,
            << <<"Helpdesk", "10", "5">>, <<"Field", "4", "pending">> >>)

\* headers of neither format, and a header with no line below it
OtherFile == CsvFile(<<"Name", "Count">>, << <<"a", "1">>, <<"b", "2">>, <<"c", "3">> >>)
HeaderOnlyFile == CsvFile(<<"Ticket", "Status">>, <<>>)

CsvFiles ==
    TicketListFiles
    \cup {ExampleFile, KeywordFile, NumberFile, TwoStatusFile, GroupFile,
          ExampleGroupFile, GroupStatusFile, OtherFile, HeaderOnlyFile}

RECURSIVE Join(_, _)
Join(cells, sep) ==
    IF cells = <<>> THEN ""
    ELSE IF Len(cells) = 1 THEN cells[1]
    ELSE cells[1] \o sep \o Join(Tail(cells), sep)

\* a cell as a CSV writer puts it: in quotes when it holds a comma
QuoteCell(c) == IF includes(c, ",") THEN "\"" \o c \o "\"" ELSE c

CsvLine(cells) == Join([j \in 1..Len(cells) |-> QuoteCell(cells[j])], ",")

\* the text of a file: one line for the header and one per row
CsvText(file) ==
    Join(<<CsvLine(file.headers)>> \o [i \in 1..Len(file.rows) |-> CsvLine(file.rows[i])],
         "\n")

\* texts as other writers leave them: padded and upper-case headers with
\* CRLF line ends; a status-like column beside the group columns; quoted
\* cells with commas and a line of blanks; no text at all; a header line
\* that ends in a line end; a line of blanks under the header
SpacedText == " Ticket , STATUS \r\nT1, Resolved \r\nT2,3\r\n"
PriorityText == "group name, Client Tickets ,Ticket_Status \nHelpdesk,10,4\nField,4,pending\n"
QuotedGroupText == "\"Group Name\",\"Employee Tickets\"\r\"IT, main\",\"1,20\"\n\n\"b\",7"
EmptyText == ""
HeaderLineText == "Ticket,Status\r\n"
BlankLineText == "Ticket,Status\n   \n"

CsvTexts ==
    { CsvText(f) : f \in CsvFiles }
    \cup {SpacedText, PriorityText, QuotedGroupText, EmptyText, HeaderLineText,
          BlankLineText}

\* every text with the file parsed from it and the counters computed from it
ReducedFiles ==
    { LET f == parseCsv(t) IN [text |-> t, file |-> f, reduction |-> Reduce(f)] :
        t \in CsvTexts }

\* the files the texts parse to
ParsedFiles == { e.file : e \in ReducedFiles }

\* reader.onload of importTicketsCsv for one file
importTicketsCsv ==
    /\ imports < MaxImports
    /\ \E e \in ReducedFiles :
          /\ csvText' = e.text
          /\ csv' = e.file
          /\ reduction' = e.reduction
          /\ store' = [store EXCEPT !.tickets =
                           StoredTickets(e.reduction, store.tickets, now)]
    /\ imports' = imports + 1
    /\ op' = "importTicketsCsv"
    /\ snap' = store
    /\ UNCHANGED <<appVars, codecVars, sessVars, now, remote, configured, isAuthenticated, phase,
                   task, loaded, loadedTickets, interfered, callBucket, last>>

clearTickets ==
    /\ store' = [store EXCEPT !.tickets = defaultTickets]
    /\ op' = "clearTickets"
    /\ snap' = store
    /\ UNCHANGED <<appVars, codecVars, csvVars, sessVars, now, remote, configured, isAuthenticated, phase,
                   task, loaded, loadedTickets, interfered, callBucket, last>>

-----------------------------------------------------------------------------
(* Specification SpecCsv: CSV imports and clearTickets on the store        *)

InitCsv ==
    /\ CodecIdle
    /\ CsvIdle
    /\ SessIdle
    /\ AppIdle
    /\ now = MaxClock
    /\ store \in StoreInits
    /\ remote = [s \in Sheets |-> <<HeaderOf(s)>>]
    /\ configured = FALSE
    /\ isAuthenticated = FALSE
    /\ op = "none"
    /\ phase = "idle"
    /\ snap = store
    /\ task = IdleTasks
    /\ loaded = NoLoaded
    /\ loadedTickets = NoTickets
    /\ interfered = NoInterference
    /\ callBucket = "none"
    /\ last = NoSync

NextCsv == importTicketsCsv \/ clearTickets

SpecCsv == InitCsv /\ [][NextCsv]_vars

-----------------------------------------------------------------------------
(* Work sessions and the calendar                                          *)

\* what a calendar call came to: the request it issued, "none" when it threw
\* before issuing one, whether the calendar carried the request out, whether
\* the promise resolved, and the id it resolved to
CallResult(call, accepted, ok, id) ==
    [call |-> call, accepted |-> accepted, ok |-> ok, id |-> id]

\* thrown before any request: not authenticated, or no calendar to be had
Thrown == CallResult("none", FALSE, FALSE, UNDEFINED)

\* an insert whose rejection is answered with an id all the same
createCalendarEventNeverThrows(auth, fresh) ==
    IF ~auth THEN {Thrown}
    ELSE {Thrown,
          CallResult("insert", FALSE, TRUE, fresh),
          CallResult("insert", TRUE, TRUE, fresh)}

\* createCalendarEvent: every way the call can end; fresh is the id the
\* calendar gives the event when it accepts the insert
createCalendarEvent(auth, fresh) ==
    IF ~auth THEN {Thrown}
    ELSE {Thrown,
          CallResult("insert", FALSE, FALSE, UNDEFINED),
          CallResult("insert", TRUE, TRUE, fresh)}

\* updateCalendarEvent
updateCalendarEvent(auth, eventId) ==
    IF ~auth THEN {Thrown}
    ELSE {Thrown,
          CallResult("patch", FALSE, FALSE, UNDEFINED),
          CallResult("patch", TRUE, TRUE, UNDEFINED)}

\* deleteCalendarEvent
deleteCalendarEvent(auth, eventId) ==
    IF ~auth THEN {Thrown}
    ELSE {Thrown,
          CallResult("delete", FALSE, FALSE, UNDEFINED),
          CallResult("delete", TRUE, TRUE, UNDEFINED)}

\* the calendar after a call on the event eventId
EventsAfter(evs, r, eventId) ==
    IF r.accepted /\ r.call = "insert" THEN evs \cup {eventId}
    ELSE IF r.accepted /\ r.call = "delete" THEN evs \ {eventId}
    ELSE evs

\* no call is made
NoCall == Thrown

\* the form data with the link to the event blanked as well
formDataWithEventId(form) ==
    [date |-> form.date, startTime |-> form.startTime, endTime |-> form.endTime,
     notes |-> form.notes, calendarEventId |-> UNDEFINED]

\* the Partial<WorkSession> handleSubmit passes on: the four fields of the form
formData(form) == form

\* { ...session, ...partial }
Spread(session, partial) ==
    [k \in DOMAIN session |-> IF k \in DOMAIN partial THEN partial[k] ELSE session[k]]

\* onSessionAdd: the session with the id the create returned, none when it failed
handleAddSession(list, id, form, r) ==
    Append(list, Session(id, form.date, form.startTime, form.endTime, form.notes,
                         IF r.ok THEN r.id ELSE UNDEFINED))

\* onSessionUpdate: the session edited in place
handleUpdateSession(list, id, partial) ==
    [i \in 1..Len(list) |->
        IF list[i].id = id THEN Spread(list[i], partial) ELSE list[i]]

\* the session kept when the calendar did not delete its event
handleDeleteSessionUnlessFailed(list, id, r) ==
    IF r.call = "delete" /\ ~r.accepted THEN list
    ELSE SelectSeq(list, LAMBDA x : x.id # id)

\* onSessionDelete: the session taken out of the list whatever the answer r
\* of the calendar was
handleDeleteSession(list, id, r) == SelectSeq(list, LAMBDA x : x.id # id)

SessionOp(o, id, r, before) ==
    [op |-> o, id |-> id, call |-> r.call, accepted |-> r.accepted, ok |-> r.ok,
     before |-> before, returned |-> r.id]

\* a sync or a load becomes the last operation unless a delete awaits its answer
Between(o) ==
    IF o.op = "deleting" THEN o ELSE SessionOp("sheet", UNDEFINED, NoCall, UNDEFINED)

\* handleSubmit with a form that lacks a date, a start or an end: the alert
handleSubmitAlert ==
    /\ sessionOp.op # "deleting"
    /\ \E form \in Forms :
          /\ form.date = "" \/ form.startTime = "" \/ form.endTime = ""
          /\ sessionOp' = SessionOp("alert", UNDEFINED, NoCall, UNDEFINED)
    /\ UNCHANGED <<appVars, codecVars, csvVars, svcVars, now, sessions, events, sheetRow,
                   deletedIds, linked, nextSession>>

\* handleSubmit with no session being edited: onSessionAdd
handleSubmitAdd ==
    /\ sessionOp.op # "deleting"
    /\ nextSession <= MaxSessions
    /\ \E form \in Forms :
          /\ form.date # "" /\ form.startTime # "" /\ form.endTime # ""
          /\ LET id == SessionId(nextSession)
                 fresh == EventId(Cardinality(linked) + 1)
             IN  \E r \in createCalendarEvent(isAuthenticated, fresh) :
                    /\ sessions' = handleAddSession(sessions, id, formData(form), r)
                    /\ events' = EventsAfter(events, r, fresh)
                    /\ linked' = IF r.accepted THEN linked \cup {<<id, fresh>>} ELSE linked
                    /\ sessionOp' = SessionOp("add", id, r, UNDEFINED)
    /\ nextSession' = nextSession + 1
    /\ UNCHANGED <<appVars, codecVars, csvVars, svcVars, now, sheetRow, deletedIds>>

\* handleSubmit while a session is edited: onSessionUpdate
handleSubmitUpdate ==
    /\ sessionOp.op # "deleting"
    /\ \E i \in 1..Len(sessions), form \in Forms :
          /\ form.date # "" /\ form.startTime # "" /\ form.endTime # ""
          /\ LET x == sessions[i]
             IN  \E r \in (IF x.calendarEventId # UNDEFINED
                          THEN updateCalendarEvent(isAuthenticated, x.calendarEventId)
                          ELSE {NoCall}) :
                    /\ sessions' = handleUpdateSession(sessions, x.id, formData(form))
                    /\ sessionOp' = SessionOp("update", x.id, r, x.calendarEventId)
    /\ UNCHANGED <<appVars, codecVars, csvVars, svcVars, now, events, sheetRow, deletedIds,
                   linked, nextSession>>

handleSubmit == handleSubmitAlert \/ handleSubmitAdd \/ handleSubmitUpdate

\* handleDelete once the user has confirmed, up to the answer of the
\* calendar: onSessionDelete asks for the event to be deleted when the
\* session has one
handleDelete ==
    /\ sessionOp.op # "deleting"
    /\ \E i \in 1..Len(sessions) :
          LET x == sessions[i]
          IN  \E r \in (IF x.calendarEventId # UNDEFINED
                       THEN deleteCalendarEvent(isAuthenticated, x.calendarEventId)
                       ELSE {NoCall}) :
                 /\ events' = EventsAfter(events, r, x.calendarEventId)
                 /\ sessionOp' = SessionOp("deleting", x.id, r, x.calendarEventId)
    /\ UNCHANGED <<appVars, codecVars, csvVars, svcVars, now, sessions, sheetRow, deletedIds,
                   linked, nextSession>>

\* the rest of onSessionDelete: the session leaves the list
handleDeleteReturn ==
    /\ sessionOp.op = "deleting"
    /\ sessions' = handleDeleteSession(sessions, sessionOp.id, sessionOp)
    /\ deletedIds' = deletedIds \cup {sessionOp.id}
    /\ sessionOp' = [sessionOp EXCEPT !.op = "delete"]
    /\ UNCHANGED <<appVars, codecVars, csvVars, svcVars, now, events, sheetRow, linked,
                   nextSession>>

\* the work item that owns the sessions
SessionItem(list) == [ItemC EXCEPT !.workSessions = Sess(list)]

\* syncWorkloadItems for the item's bucket: the row written, or the sheet
\* left cleared when the update is rejected
SyncItemRow ==
    /\ isAuthenticated
    /\ sheetRow' \in {EncodeRow(SessionItem(sessions), now), NoRow}
    /\ sessionOp' = Between(sessionOp)
    /\ UNCHANGED <<appVars, codecVars, csvVars, svcVars, now, sessions, events, deletedIds,
                   linked, nextSession>>

\* loadFromSheets for the item's bucket: the decoded row replaces the item
\* unless the load came back empty
LoadItemRow ==
    /\ isAuthenticated
    /\ sessions' = IF sheetRow = NoRow THEN sessions
                   ELSE DecodeSessions(sheetRow)
    /\ sessionOp' = Between(sessionOp)
    /\ UNCHANGED <<appVars, codecVars, csvVars, svcVars, now, events, sheetRow, deletedIds,
                   linked, nextSession>>

-----------------------------------------------------------------------------
(* Specification SpecSessions: the sessions of one item, signed in or not  *)

InitSessions ==
    /\ CodecIdle
    /\ CsvIdle
    /\ SessIdle
    /\ AppIdle
    /\ now = 0
    /\ store = defaultStore
    /\ remote = [s \in Sheets |-> <<HeaderOf(s)>>]
    /\ configured = TRUE
    /\ isAuthenticated \in BOOLEAN
    /\ op = "none"
    /\ phase = "idle"
    /\ snap = store
    /\ task = IdleTasks
    /\ loaded = NoLoaded
    /\ loadedTickets = NoTickets
    /\ interfered = NoInterference
    /\ callBucket = "none"
    /\ last = NoSync

NextSessions ==
    handleSubmit \/ handleDelete \/ handleDeleteReturn \/ SyncItemRow \/ LoadItemRow

SpecSessions == InitSessions /\ [][NextSessions]_vars

-----------------------------------------------------------------------------
(* The application's local operations on the store                        *)

\* the ids of the items of a bucket
Ids(items) == {items[i].id : i \in 1..Len(items)}

\* crypto.randomUUID(): one of the identifiers no item of the store has
Uuid(n) == "uuid-" \o ToString(n)
randomUUID ==
    {Uuid(n) : n \in 1..MaxItems} \ UNION {Ids(store[b]) : b \in Buckets}

\* new Date(t).toISOString().slice(0, 10), the clock counting days
DateOf(t) == "day-" \o ToString(t)

\* the item addItem makes
newItem(id, t) ==
    WorkItem(id, "Untitled", "Dagan", "In Progress", "Medium", DateOf(t),
             DateOf(t + 7), UndefNum, UNDEFINED, UNDEFINED, FALSE, NoSessions)

\* the patches the row editor passes to updateItem
Patches == {[status |-> "Done"], [name |-> "Renamed"]}

\* s[bucket].map(it => it.id === id ? { ...it, ...patch } : it)
Patched(items, id, patch) ==
    [i \in 1..Len(items) |->
        IF items[i].id = id THEN Spread(items[i], patch) ELSE items[i]]

RECURSIVE Without(_, _)
\* s[bucket].filter(it => it.id !== id)
Without(items, id) ==
    IF items = <<>> THEN <<>>
    ELSE IF Head(items).id = id THEN Without(Tail(items), id)
    ELSE <<Head(items)>> \o Without(Tail(items), id)

\* a local operation `name` leaves the store `next`; no request is made, and
\* the operation in flight, when there is one, goes on
LocalOp(name, next) ==
    /\ opCount < MaxOps
    /\ opCount' = opCount + 1
    /\ UNCHANGED second
    /\ op' = IF phase = "idle" THEN name ELSE op
    /\ snap' = IF phase = "idle" THEN next ELSE snap
    /\ store' = next
    /\ UNCHANGED <<codecVars, csvVars, sessVars, now, remote, configured,
                   isAuthenticated, phase, task, loaded, loadedTickets, interfered,
                   callBucket, last>>

\* addItem(bucket): the new item goes in front of the bucket
addItem ==
    /\ Len(store[callBucket]) < MaxItems
    /\ \E id \in randomUUID :
          LocalOp("addItem",
                  [store EXCEPT ![callBucket] = <<newItem(id, now)>> \o @])

\* updateItem(bucket, id, patch) for an item of the bucket
updateItem ==
    \E id \in Ids(store[callBucket]), patch \in Patches :
        LocalOp("updateItem",
                [store EXCEPT ![callBucket] = Patched(@, id, patch)])

\* removeItem(bucket, id) for an item of the bucket
removeItem ==
    \E id \in Ids(store[callBucket]) :
        LocalOp("removeItem", [store EXCEPT ![callBucket] = Without(@, id)])

\* clearAll, confirmed
clearAll == LocalOp("clearAll", defaultStore)

\* a file chosen for importJson: whether JSON.parse accepts its text, and the
\* object it parses to (the keys it has and their values)
JsonFile(ok, keys, v) == [ok |-> ok, keys |-> keys, v |-> v]

\* the file exportJson wrote for a store
ExportOf(s) ==
    JsonFile(TRUE,
             IF s.tickets.present THEN {"profiles", "contracts", "projects", "tickets"}
             ELSE {"profiles", "contracts", "projects"},
             s)

\* a file that is not JSON; a file with one bucket only; a file put together
\* from two exports, one item in it twice
JsonFiles ==
    { JsonFile(FALSE, {}, defaultStore),
      ExportOf(Store(<<ItemA>>, <<ItemB, ItemC>>, <<>>, TicketsA)),
      JsonFile(TRUE, {"contracts"}, Store(<<>>, <<ItemC>>, <<>>, NoTickets)),
      JsonFile(TRUE, {"profiles", "contracts", "projects"},
               Store(<<ItemA, [ItemA EXCEPT !.name = "Alpha (copy)"]>>,
                     <<ItemA, [ItemA EXCEPT !.name = "Alpha (copy)"]>>,
                     <<ItemA, [ItemA EXCEPT !.name = "Alpha (copy)"]>>, NoTickets)) }

\* ({ ...prev, ...next })
SpreadStore(prev, file) ==
    [k \in DOMAIN prev |-> IF k \in file.keys THEN file.v[k] ELSE prev[k]]

\* the reader.onload of importJson: the parsed object is spread over the
\* store, a file that does not parse is answered with the alert
importJson ==
    \E file \in JsonFiles :
        LocalOp("importJson", IF file.ok THEN SpreadStore(store, file) ELSE store)

\* loadFromSheets has returned: its calls and what they returned are gone
loadFromSheetsReturn ==
    /\ op = "loadFromSheets"
    /\ phase = "done"
    /\ phase' = "idle"
    /\ task' = IdleTasks
    /\ snap' = store
    /\ loaded' = NoLoaded
    /\ loadedTickets' = NoTickets
    /\ opCount' = opCount + 1
    /\ UNCHANGED <<second, codecVars, csvVars, sessVars, now, store, remote, configured,
                   isAuthenticated, op, interfered, callBucket, last>>

-----------------------------------------------------------------------------
(* Specification SpecStore: the local operations and the load from the     *)
(* spreadsheet, one after the other, on a spreadsheet other writers filled *)

\* rows whose progress cell is above and below the range
HighRow == <<"High", "Eve", "In Progress", "Low", "", "", "150", "", ISO(0), ISO(0), "[]">>
LowRow == <<"Low", "Eve", "In Progress", "Low", "", "", "-5", "", ISO(0), ISO(0), "[]">>

StoreRemoteInits ==
    RemoteInits \cup
    { [s \in Sheets |->
          CASE s = SHEET_NAMES.PROFILES -> Sheet(<<HighRow, EncodeRow(ItemA, 0)>>)
            [] s = SHEET_NAMES.CONTRACTS -> Sheet(<<LowRow>>)
            [] s = SHEET_NAMES.PROJECTS -> Sheet(<<EncodeRow(ItemC, 0)>>)
            [] OTHER -> <<TicketHeader>> \o TicketRows(TicketsA)] }

InitStore ==
    /\ CodecIdle
    /\ CsvIdle
    /\ SessIdle
    /\ AppIdle
    /\ now = 0
    /\ store \in StoreInits
    /\ remote \in StoreRemoteInits
    /\ configured = TRUE
    /\ isAuthenticated = TRUE
    /\ op = "none"
    /\ phase = "idle"
    /\ snap = store
    /\ task = IdleTasks
    /\ loaded = NoLoaded
    /\ loadedTickets = NoTickets
    /\ interfered = NoInterference
    /\ callBucket \in Buckets
    /\ last = NoSync

NextStore ==
    \/ (phase = "idle" /\ addItem)
    \/ (phase = "idle" /\ updateItem)
    \/ (phase = "idle" /\ removeItem)
    \/ (phase = "idle" /\ clearAll)
    \/ (phase = "idle" /\ importJson)
    \/ (opCount < MaxOps /\ loadFromSheets)
    \/ loadFromSheetsApply
    \/ loadFromSheetsReturn
    \/ \E t \in Tasks : ReadOk(t)
    \/ \E t \in Tasks : ReadFail(t)

SpecStore == InitStore /\ [][NextStore]_vars

-----------------------------------------------------------------------------
(* Specification SpecOverlap: a second syncToSheets starts, from the       *)
(* debounced auto-sync or the sync-to-sheets event, while the requests of  *)
(* the first are outstanding; the calls of the two on one bucket           *)

\* the second syncToSheets calls syncWorkloadItems(callBucket, store[callBucket])
\* while the call of the first has not settled
secondSync ==
    /\ op = "syncWorkloadItems"
    /\ phase = "running"
    /\ ~Settled(task[callBucket])
    /\ second.pc = "idle"
    /\ second' = syncWorkloadItems(callBucket, store[callBucket])
    /\ UNCHANGED <<opCount, codecVars, csvVars, sessVars, now, svcVars>>

\* the clear request of the second call is carried out and answered
SecondClearOk ==
    /\ second.clear = "pending"
    /\ remote' = [remote EXCEPT ![SheetOf(callBucket)] = SheetsClear(@, 2)]
    /\ second' = AfterClear(callBucket, second)
    /\ UNCHANGED <<opCount, codecVars, csvVars, sessVars, now, store, configured,
                   isAuthenticated, op, phase, snap, task, loaded, loadedTickets,
                   interfered, callBucket, last>>

\* the write request of the second call is carried out and answered
SecondWriteOk ==
    /\ second.write = "pending"
    /\ remote' = [remote EXCEPT ![SheetOf(callBucket)] =
                     SheetsUpdate(@, 2, second.values)]
    /\ second' = [second EXCEPT !.write = "ok", !.pc = "resolved"]
    /\ UNCHANGED <<opCount, codecVars, csvVars, sessVars, now, store, configured,
                   isAuthenticated, op, phase, snap, task, loaded, loadedTickets,
                   interfered, callBucket, last>>

\* the first sync has been called and the second has not
BetweenSyncs == phase = "running" /\ second.pc = "idle"

InitOverlap ==
    /\ CodecIdle
    /\ CsvIdle
    /\ SessIdle
    /\ AppIdle
    /\ now = 0
    /\ store \in StoreInits
    /\ remote \in RemoteInits
    /\ configured = TRUE
    /\ isAuthenticated = TRUE
    /\ op = "none"
    /\ phase = "idle"
    /\ snap = store
    /\ task = IdleTasks
    /\ loaded = NoLoaded
    /\ loadedTickets = NoTickets
    /\ interfered = NoInterference
    /\ callBucket \in Buckets
    /\ last = NoSync

NextOverlap ==
    \/ callSyncWorkloadItems
    \/ secondSync
    \/ (BetweenSyncs /\ addItem)
    \/ (BetweenSyncs /\ updateItem)
    \/ (BetweenSyncs /\ removeItem)
    \/ Tick
    \/ ClearOk(callBucket)
    \/ WriteOk(callBucket)
    \/ SecondClearOk
    \/ SecondWriteOk

SpecOverlap == InitOverlap /\ [][NextOverlap]_vars

-----------------------------------------------------------------------------
(* Properties                                                              *)

\* the fields of the data model other than id and updatedAt
DataFields == {"name", "owner", "status", "priority", "startDate", "dueDate",
               "progress", "notes", "createdAt", "workSessions"}

\* decoded item y reproduces item x on every data field
SameData(x, y) == \A f \in DataFields : y[f] = x[f]

\* item x holds what a row can carry: a status, a priority, a creation time
\* and a whole-number progress
Storable(x) ==
    /\ ~Falsy(x.status)
    /\ ~Falsy(x.priority)
    /\ ~Falsy(x.createdAt)
    /\ x.progress.def /\ ~x.progress.nan

\* decoded item y reproduces item x, a missing optional text coming back as
\* the empty string and a missing session list as the empty list
SameDataUpToMissing(x, y) ==
    /\ \A f \in {"name", "owner", "status", "priority", "progress", "createdAt"} :
          y[f] = x[f]
    /\ \A f \in {"startDate", "dueDate", "notes"} : y[f] = OrElse(x[f], "")
    /\ y.workSessions = Sess(IF x.workSessions.def THEN x.workSessions.v ELSE <<>>)

\* C1: once syncWorkloadItems(bucket, items) has resolved and no other writer
\* touched the sheet, the data region holds exactly encode(items[i]) in row
\* i+2, for every i, and no other row
C1_SyncOverwritesDataRegion ==
    \A b \in Buckets :
        (op = "syncWorkloadItems" /\ task[b].pc = "resolved" /\ ~interfered[b])
        => \E t \in 0..MaxClock : DataRegion(SheetOf(b)) = EncodeRows(snap[b], t)

\* C1 happens: a sync of two items resolved on a sheet nobody else touched
C1_Witness ==
    /\ op = "syncWorkloadItems"
    /\ task[callBucket].pc = "resolved"
    /\ task[callBucket].write = "ok"
    /\ ~interfered[callBucket]
    /\ Len(snap[callBucket]) = 2
    /\ Len(DataRegion(SheetOf(callBucket))) = 2

\* C2: a call's write is outstanding or applied only when that call's clear
\* has completed, for the three buckets and for the ticket summary
C2_WriteOnlyAfterClear ==
    \A t \in Tasks : task[t].write # "none" => task[t].clear = "ok"

\* C2 happens: the ticket summary's write is done while a bucket's write is
\* outstanding
C2_Witness ==
    /\ task[TICKETS].write = "ok"
    /\ \E b \in Buckets : task[b].write = "pending"

\* the state part of C3
WriteFailureState ==
    \A b \in Buckets :
        (task[b].clear = "ok" /\ task[b].write = "failed")
        => /\ DataRegion(SheetOf(b)) = <<>>
           /\ task[b].pc = "rejected"
           /\ store[b] = snap[b]

\* C3: when a sync's clear succeeded and its write failed, the data region is
\* empty, the call has rejected (the error is with the caller), the bucket in
\* the store is what it was at the call, and the write is not issued again
C3_WriteFailureLeavesTableEmpty ==
    /\ []WriteFailureState
    /\ [][\A b \in Buckets :
             task[b].write = "failed" =>
                 task'[b].write = "failed" /\ task'[b].pc = "rejected"]_vars

\* C3 happens: the write of a non-empty bucket failed after its clear
C3_Witness ==
    \E b \in Buckets :
        /\ task[b].clear = "ok"
        /\ task[b].write = "failed"
        /\ Len(task[b].values) > 0

\* C4 as claimed: decode(encode(x)) reproduces every data field of every x
C4_RoundTripEveryItem ==
    cpc = "decoded" => SameData(cx, cout)

\* C4 amended: decode(encode(x)) reproduces every data field of every x that
\* has a status, a priority, a creation time and a whole-number progress; a
\* missing start date, due date or note comes back empty and a missing
\* session list comes back as the empty list
C4_RoundTripStorableItem ==
    (cpc = "decoded" /\ Storable(cx)) => SameDataUpToMissing(cx, cout)

\* C4 happens: an item with two sessions and no start date went through
C4_Witness ==
    /\ cpc = "decoded"
    /\ Storable(cx)
    /\ cx.startDate = UNDEFINED
    /\ cx.workSessions = Sess(<<S1, S2>>)
    /\ cout.workSessions = Sess(<<S1, S2>>)

\* a load of the bucket read the sheet right after a sync of it resolved,
\* nobody else having written in between
LoadedAfterSync ==
    /\ op = "loadWorkloadItems"
    /\ task[callBucket].pc = "resolved"
    /\ task[callBucket].read = "ok"
    /\ last.valid
    /\ ~interfered[callBucket]
    /\ Len(last.items) > 0

\* C5 as claimed: the load returns as many items as were synced, each equal
\* to the synced one on every data field
C5_SyncThenLoadEveryItem ==
    LoadedAfterSync =>
        /\ Len(loaded[callBucket]) = Len(last.items)
        /\ \A i \in 1..Len(last.items) : SameData(last.items[i], loaded[callBucket][i])

\* C5 amended: the load returns as many items as were synced, in the same
\* order, and reproduces every item that has a status, a priority, a creation
\* time and a whole-number progress (a missing optional text as the empty
\* string, a missing session list as the empty list)
C5_SyncThenLoadStorableItem ==
    LoadedAfterSync =>
        /\ Len(loaded[callBucket]) = Len(last.items)
        /\ \A i \in 1..Len(last.items) :
              /\ loaded[callBucket][i].name = last.items[i].name
              /\ Storable(last.items[i]) =>
                    SameDataUpToMissing(last.items[i], loaded[callBucket][i])

\* C5 happens: two items were synced and loaded back
C5_Witness ==
    /\ LoadedAfterSync
    /\ Len(loaded[callBucket]) = 2
    /\ \E i \in 1..2 : Storable(last.items[i]) /\ last.items[i].workSessions.v # <<>>

\* C6: loadWorkloadItems never rejects; without a spreadsheet id it returns
\* the empty list and issues no read, and when the read fails (the table is
\* absent, the transport failed) it returns the empty list
C6_LoadNeverFails ==
    op = "loadWorkloadItems" =>
        /\ task[callBucket].pc # "rejected"
        /\ ~configured =>
              /\ task[callBucket].read = "none"
              /\ task[callBucket].pc = "resolved"
              /\ loaded[callBucket] = <<>>
        /\ task[callBucket].read = "failed" =>
              /\ task[callBucket].pc = "resolved"
              /\ loaded[callBucket] = <<>>

\* C6 happens: the read of a sheet that holds rows failed
C6_Witness ==
    /\ op = "loadWorkloadItems"
    /\ task[callBucket].read = "failed"
    /\ Len(DataRegion(SheetOf(callBucket))) > 0

\* C7: after a loadFromSheets or syncToSheets in which a request failed the
\* store equals the store before the call
C7_TransportErrorLeavesStore ==
    (op \in {"loadFromSheets", "syncToSheets"} /\ phase = "done" /\ AnyFailedRequest)
    => store = snap

\* C8: in one save or sync of the three buckets, a bucket whose request
\* failed holds back no other bucket (the call of every other bucket has been
\* made), and no call has two requests outstanding
C8_FailureBlocksOnlyItsBucket ==
    op \in {"syncToSheets", "saveAllToSheets"} =>
        /\ \A b \in Buckets :
              (task[b].pc = "rejected" /\ task[b].error = "transport")
              => \A c \in Buckets \ {b} : task[c].pc # "idle"
        /\ \A t \in Tasks : ~(task[t].clear = "pending" /\ task[t].write = "pending")

\* the second of two syncs of the same items in a row has resolved
SyncedTwice ==
    /\ op = "syncWorkloadItems"
    /\ phase = "running"
    /\ task[callBucket].pc = "resolved"
    /\ ~interfered[callBucket]
    /\ last.valid
    /\ last.items = snap[callBucket]

\* C9 as claimed: the second sync leaves the rows the first one left
C9_SecondSyncSameRows ==
    SyncedTwice => DataRegion(SheetOf(callBucket)) = last.rows

\* the cells of a row that carry the time of the sync: updatedAt, and
\* createdAt when the item has none
TimeCells(item) == IF Falsy(item.createdAt) THEN {9, 10} ELSE {10}

\* C9 amended: the second sync leaves the rows the first one left in every
\* cell but updatedAt, and createdAt for an item that has none
C9_SecondSyncSameRowsButTimes ==
    SyncedTwice =>
        LET rows == DataRegion(SheetOf(callBucket))
        IN  /\ Len(rows) = Len(last.rows)
            /\ \A i \in 1..Len(rows) :
                  /\ Len(rows[i]) = Len(last.rows[i])
                  /\ \A c \in (1..Len(rows[i])) \ TimeCells(last.items[i]) :
                        rows[i][c] = last.rows[i][c]

\* C9 happens: the second sync ran at a later time than the first
C9_Witness ==
    /\ SyncedTwice
    /\ Len(last.rows) = 2
    /\ DataRegion(SheetOf(callBucket))[1][10] # last.rows[1][10]

\* the counter the claim gives a status cell: by its number when the cell
\* parses as one, by its keywords when it does not
ClaimedCounter(cell) ==
    LET lower == toLowerCase(cell)
        n == Number(lower)
    IN  IF cell # "" /\ NumberIsFinite(n)
        THEN (IF n.v \in {4, 5} THEN "completed" ELSE IF n.v = 3 THEN "pending" ELSE "open")
        ELSE IF includes(lower, "resolved") \/ includes(lower, "closed")
                \/ includes(lower, "complete") THEN "completed"
        ELSE IF includes(lower, "pending") \/ includes(lower, "waiting") THEN "pending"
        ELSE "open"

\* the status cell of line i of the file: the first non-empty one of the
\* status-like columns
StatusCellOf(file, i) == StatusOf(Normalize(RowObject(file.headers, file.rows[i])))

\* how many lines of each file the claim gives to each counter
ClaimedCounts ==
    [file \in ParsedFiles |->
        [counter \in {"completed", "pending", "open"} |->
            Cardinality({i \in 1..Len(file.rows) :
                            ClaimedCounter(StatusCellOf(file, i)) = counter})]]

ClaimedCount(file, counter) == ClaimedCounts[file][counter]

\* C10: after a TicketList import the reduction's completed, pending and open
\* are the numbers of rows whose status cell the rules give to each counter,
\* its total is the row count, these counters are the stored ones (the stored
\* total being the row count unless the prior summary was a group summary),
\* and the statuses 2, Resolved, 3, 5, open give open 2, pending 1,
\* completed 2, total 5
C10_TicketListClassification ==
    (op = "importTicketsCsv" /\ reduction.format = "ticket-list") =>
        /\ reduction.completed = ClaimedCount(csv, "completed")
        /\ reduction.pending = ClaimedCount(csv, "pending")
        /\ reduction.open = ClaimedCount(csv, "open")
        /\ reduction.total = Len(csv.rows)
        /\ store.tickets.completed = Num(reduction.completed)
        /\ store.tickets.pending = Num(reduction.pending)
        /\ store.tickets.open = Num(reduction.open)
        /\ (~(snap.tickets.present /\ snap.tickets.meta = "group-summary"))
              => store.tickets.total = Num(Len(csv.rows))
        /\ csv = ExampleFile =>
              /\ reduction.open = 2 /\ reduction.pending = 1
              /\ reduction.completed = 2 /\ reduction.total = 5

\* C10 happens: the example file was imported over a summary that was no
\* group summary
C10_Witness ==
    /\ op = "importTicketsCsv"
    /\ csv = ExampleFile
    /\ reduction.format = "ticket-list"
    /\ snap.tickets.meta # "group-summary"
    /\ store.tickets.open = Num(2)
    /\ store.tickets.total = Num(5)

\* the number a cell of a group summary counts for: 0 when it does not parse
GroupCellValue(cell) ==
    LET v == Number(RemoveCommas(cell))
    IN  IF v.nan THEN 0 ELSE v.v

\* the cell of line i of the file in the column with lower-cased header h
CellUnder(file, i, h) ==
    LET js == {j \in 1..Len(file.headers) : toLowerCase(file.headers[j]) = h}
        j == CHOOSE k \in js : TRUE
    IN  IF js = {} \/ j > Len(file.rows[i]) THEN "" ELSE file.rows[i][j]

\* the lower-cased headers of the file
LowerHeaders(file) == {toLowerCase(file.headers[j]) : j \in 1..Len(file.headers)}

RECURSIVE SumOver(_, _, _)
\* the sum of the cells of the file over the lines and the headers given
SumOver(file, lines, hs) ==
    IF lines = {} \/ hs = {} THEN 0
    ELSE LET i == CHOOSE k \in lines : TRUE
             h == CHOOSE k \in hs : TRUE
         IN  GroupCellValue(CellUnder(file, i, h))
             + SumOver(file, {i}, hs \ {h}) + SumOver(file, lines \ {i}, hs)

\* what the claim says a group summary file reduces to
ClaimedGroups ==
    [file \in ParsedFiles |->
        LET lines == 1..Len(file.rows)
        IN  [total |-> SumOver(file, lines,
                          {h \in LowerHeaders(file) :
                              endsWith(h, "tickets") /\ ~includes(h, "resolved")}),
             clientResolved |-> SumOver(file, lines,
                          LowerHeaders(file) \cap {"client tickets resolved"}),
             employeeResolved |-> SumOver(file, lines,
                          LowerHeaders(file) \cap {"employee tickets resolved"}),
             labels |-> [i \in lines |-> CellUnder(file, i, "group name")]]]

\* C11: after a GroupSummary import the stored total is the sum of the
\* columns ending in "tickets" without "resolved", clientResolved and
\* employeeResolved are the sums of their columns, completed is their sum, a
\* cell that does not parse counts 0, the breakdown has one entry per row in
\* row order, and the row "IT", 10, 5, 8, 4 gives 15, 4, 8, 12
C11_GroupSummaryReduction ==
    (op = "importTicketsCsv" /\ reduction.format = "group-summary") =>
        LET claimed == ClaimedGroups[csv]
            t == store.tickets
        IN  /\ t.total = Num(claimed.total)
            /\ t.clientResolved = Num(claimed.clientResolved)
            /\ t.employeeResolved = Num(claimed.employeeResolved)
            /\ t.completed = Num(claimed.clientResolved + claimed.employeeResolved)
            /\ t.breakdown.def
            /\ Len(t.breakdown.v) = Len(csv.rows)
            /\ \A i \in 1..Len(csv.rows) :
                  claimed.labels[i] # "" => t.breakdown.v[i].label = claimed.labels[i]
            /\ csv = ExampleGroupFile =>
                  /\ t.total = Num(15) /\ t.clientResolved = Num(4)
                  /\ t.employeeResolved = Num(8) /\ t.completed = Num(12)

\* C11 happens: a group summary of two rows with a cell that does not parse
\* was imported
C11_Witness ==
    /\ op = "importTicketsCsv"
    /\ csv = GroupFile
    /\ reduction.format = "group-summary"
    /\ store.tickets.total = Num(28)
    /\ store.tickets.completed = Num(15)
    /\ Len(store.tickets.breakdown.v) = 2

\* C12: after the import of a file of neither format over a stored summary,
\* the summary has no source format, its total is the number of data rows and
\* completed, open, pending, clientResolved and employeeResolved are what
\* they were before the import
C12_UnknownKeepsCounters ==
    (op = "importTicketsCsv" /\ reduction.format = "unknown" /\ snap.tickets.present) =>
        /\ store.tickets.meta = UNDEFINED
        /\ store.tickets.total = Num(Len(csv.rows))
        /\ \A c \in {"completed", "open", "pending", "clientResolved", "employeeResolved"} :
              store.tickets[c] = snap.tickets[c]

\* C13: after a TicketList import the stored total is the prior total when
\* the prior summary was a group summary, and the row count of the file in
\* every other case
C13_GroupSummaryTotalKept ==
    (op = "importTicketsCsv" /\ reduction.format = "ticket-list") =>
        IF snap.tickets.present /\ snap.tickets.meta = "group-summary"
        THEN store.tickets.total = snap.tickets.total
        ELSE store.tickets.total = Num(Len(csv.rows))

\* C13 happens: a ticket list was imported over a group summary whose total
\* is not the row count of the list
C13_Witness ==
    /\ op = "importTicketsCsv"
    /\ reduction.format = "ticket-list"
    /\ snap.tickets.present
    /\ snap.tickets.meta = "group-summary"
    /\ snap.tickets.total # Num(Len(csv.rows))
    /\ store.tickets.total = snap.tickets.total
    /\ store.tickets.meta = "ticket-list"

\* the status-like columns among the lower-cased headers of a file
StatusLike(file) == LowerHeaders(file) \cap {"status", "ticket status", "ticket_status"}

\* C14: an imported CSV with a data row whose lower-cased, trimmed headers
\* hold a status-like column is reduced as a ticket list, also when they hold
\* "group name" and a "... tickets" column, and also when the text pads the
\* header cells and writes them in upper case; a group summary is chosen
\* only when no status-like column is present
C14_StatusColumnFirst ==
    (op = "importTicketsCsv" /\ csv.rows # <<>>) =>
        /\ StatusLike(csv) # {} =>
              /\ reduction.format = "ticket-list"
              /\ store.tickets.meta = "ticket-list"
        /\ reduction.format = "group-summary" => StatusLike(csv) = {}
        /\ store.tickets.meta = "group-summary" => StatusLike(csv) = {}
        /\ csvText \in {SpacedText, PriorityText} => reduction.format = "ticket-list"

\* C14 happens: a text with padded headers "group name", " Client Tickets "
\* and "Ticket_Status " was imported and reduced as a ticket list of 2 rows
C14_Witness ==
    /\ op = "importTicketsCsv"
    /\ csvText = PriorityText
    /\ "group name" \in LowerHeaders(csv)
    /\ "client tickets" \in LowerHeaders(csv)
    /\ reduction.format = "ticket-list"
    /\ store.tickets.completed = Num(1)
    /\ store.tickets.pending = Num(1)

\* the number of lines of a text
LineCount(text) == Len(SplitLines(NormalizeNewlines(text)))

\* C15: importing a text of fewer than 2 lines gives the outcome Unknown with
\* no row and yields no summary: the stored ticket summary is the one that
\* was there before, none when there was none
C15_ShortTextYieldsNoSummary ==
    (op = "importTicketsCsv" /\ LineCount(csvText) < 2) =>
        /\ reduction.format = "unknown"
        /\ reduction.total = 0
        /\ store.tickets = snap.tickets

\* C16: after the second of two imports the stored clientResolved,
\* employeeResolved and breakdown are those of the file just imported: not
\* defined when it was no group summary, the sums and the groups of the file
\* when it was one
C16_ImportReplacesWholesale ==
    (op = "importTicketsCsv" /\ imports >= 2) =>
        IF reduction.format = "group-summary"
        THEN /\ store.tickets.clientResolved = Num(reduction.clientResolved)
             /\ store.tickets.employeeResolved = Num(reduction.employeeResolved)
             /\ store.tickets.breakdown = [def |-> TRUE, v |-> reduction.breakdown]
        ELSE /\ ~store.tickets.clientResolved.def
             /\ ~store.tickets.employeeResolved.def
             /\ ~store.tickets.breakdown.def

\* the positions of the session of the last operation in the item's list
Positions == {i \in 1..Len(sessions) : sessions[i].id = sessionOp.id}

\* C17: after a session was added it is in the item's list, once; when the
\* calendar accepted the insert the session carries the id of the event that
\* is now in the calendar, and when the create failed (not authenticated, no
\* calendar, insert rejected) the session is there with no event id
C17_AddKeepsSession ==
    sessionOp.op = "add" =>
        /\ Cardinality(Positions) = 1
        /\ \A i \in Positions :
              IF sessionOp.call = "insert" /\ sessionOp.accepted
              THEN /\ sessions[i].calendarEventId = sessionOp.returned
                   /\ sessions[i].calendarEventId \in events
                   /\ <<sessionOp.id, sessions[i].calendarEventId>> \in linked
              ELSE sessions[i].calendarEventId = UNDEFINED

\* C17 happens: a second session was added while the insert was rejected,
\* after a first one whose insert was accepted
C17_Witness ==
    /\ sessionOp.op = "add"
    /\ sessionOp.call = "insert"
    /\ ~sessionOp.accepted
    /\ Len(sessions) = 2
    /\ sessions[1].calendarEventId = EventId(1)
    /\ sessions[2].calendarEventId = UNDEFINED
    /\ sessions[2].id = sessionOp.id

\* C18: an update asks the calendar for a patch only when the session had an
\* event id and makes no calendar request when it had none; whether or not
\* a request was made and whatever came of it, the session is still in the
\* list, once, with the event id it had before the update
C18_UpdateKeepsEventId ==
    sessionOp.op = "update" =>
        /\ sessionOp.call \in {"none", "patch"}
        /\ sessionOp.call = "patch" => sessionOp.before # UNDEFINED
        /\ sessionOp.before = UNDEFINED => sessionOp.call = "none"
        /\ Cardinality(Positions) = 1
        /\ \A i \in Positions : sessions[i].calendarEventId = sessionOp.before

\* C18 happens: a session linked to an event was given the other form's
\* times while the calendar rejected the patch
C18_Witness ==
    /\ sessionOp.op = "update"
    /\ sessionOp.call = "patch"
    /\ ~sessionOp.accepted
    /\ sessionOp.before = EventId(1)
    /\ \E i \in Positions :
          /\ sessions[i].calendarEventId = EventId(1)
          /\ sessions[i].startTime = FormB.startTime
          /\ sessions[i].notes = FormB.notes

\* C19: a delete asks the calendar to delete the event before the session
\* leaves the list, and only when the session has an event id; once the
\* delete has returned the session is not in the list, whether the calendar
\* deleted the event, refused, or was never asked
C19_DeleteRemovesSession ==
    /\ sessionOp.op \in {"deleting", "delete"} =>
          /\ sessionOp.call \in {"none", "delete"}
          /\ sessionOp.call = "delete" => sessionOp.before # UNDEFINED
          /\ sessionOp.before = UNDEFINED => sessionOp.call = "none"
          /\ (sessionOp.call = "delete" /\ sessionOp.accepted) =>
                sessionOp.before \notin events
    /\ sessionOp.op = "delete" =>
          /\ Positions = {}
          /\ sessionOp.id \in deletedIds

\* C19 happens: the calendar refused to delete the event of a session and
\* the session left the list all the same, the event staying in the calendar
C19_Witness ==
    /\ sessionOp.op = "delete"
    /\ sessionOp.call = "delete"
    /\ ~sessionOp.accepted
    /\ sessionOp.before \in events
    /\ Positions = {}
    /\ Len(sessions) = 1

\* C20: every session of the item's list has an event id only if a remote
\* create for that session succeeded, has then the id that create returned
\* and keeps it, also after the list was written to the sheet and read back;
\* and no session that was deleted is in the list
C20_SessionLifecycle ==
    \A i \in 1..Len(sessions) :
        LET x == sessions[i]
        IN  /\ x.calendarEventId # UNDEFINED => <<x.id, x.calendarEventId>> \in linked
            /\ \A l \in linked : l[1] = x.id => x.calendarEventId = l[2]
            /\ x.id \notin deletedIds


\* C21: no two items of a bucket of the store have the same id, whatever
\* was added, edited, deleted, imported from a JSON file or loaded from the
\* spreadsheet
C21_UniqueIds ==
    \A b \in Buckets :
        \A i, j \in 1..Len(store[b]) : store[b][i].id = store[b][j].id => i = j

\* C22: the progress of every item of the store that has one is a number
\* from 0 to 100, also when the item was decoded from a row of the
\* spreadsheet whose progress cell holds a number outside that range
C22_ProgressInRange ==
    \A b \in Buckets :
        \A i \in 1..Len(store[b]) :
            LET p == store[b][i].progress
            IN  p.def => (~p.nan /\ p.v >= 0 /\ p.v <= 100)

\* the item decoded from a row has the defaults of the claim: the id made of
\* the bucket and the row index, status Not Started and priority Medium for
\* a blank cell, no session for a sessions cell that is missing, empty or
\* not JSON, progress zero for a progress cell that holds no number
DecodedWithDefaults(bucketKey, row, index, item) ==
    /\ item.id = bucketKey \o "-" \o ToString(index)
    /\ Falsy(Cell(row, 2)) => item.status = "Not Started"
    /\ Falsy(Cell(row, 3)) => item.priority = "Medium"
    /\ (Falsy(Cell(row, 10)) \/ ~JSONparse(Cell(row, 10)).ok) =>
          item.workSessions = Sess(<<>>)
    /\ ParseInt(OrElse(Cell(row, 6), "0")).nan => item.progress = Num(0)

\* C23: a read that is answered returns one item for every row of the data
\* region, rows shorter than 11 cells included, each with the defaults of
\* the claim
C23_DecodeDefaults ==
    [][(callBucket \in Buckets /\ task[callBucket].read = "pending"
                                /\ task'[callBucket].read = "ok") =>
          LET rows == DataRegion(SheetOf(callBucket))
              items == loaded'[callBucket]
          IN  /\ Len(items) = Len(rows)
              /\ \A i \in 1..Len(rows) :
                    DecodedWithDefaults(callBucket, rows[i], i - 1, items[i])]_vars

\* C27: once two overlapping syncs of a bucket have both completed, the data
\* region of the bucket's table is the full row list of one of the two
\* snapshots, never rows of one followed by leftover rows of the other
C27_OneSnapshot ==
    (callBucket \in Buckets /\ task[callBucket].pc = "resolved"
                             /\ second.pc = "resolved") =>
        DataRegion(SheetOf(callBucket)) \in {task[callBucket].values, second.values}

\* the clock value an Updated At cell holds, -1 when it holds no time
TimeOf(cell) ==
    IF \E n \in 0..MaxClock : ISO(n) = cell
    THEN CHOOSE n \in 0..MaxClock : ISO(n) = cell
    ELSE -1

\* the Updated At cells of the data rows of a sheet
UpdatedAtCells(grid) ==
    [i \in 1..Len(SheetsGet(grid, 2)) |-> Cell(SheetsGet(grid, 2)[i], 9)]

\* a sync call that starts stamps every row it prepares with the time of the
\* call, and its write puts these rows in the table
StampsSyncTime(before, after) ==
    /\ (before.pc = "idle" /\ after.pc = "clear") =>
          \A i \in 1..Len(after.values) : Cell(after.values[i], 9) = ISO(now)
    /\ (before.write = "pending" /\ after.write = "ok") =>
          \A i \in 1..Len(before.values) :
              SheetsGet(remote'[SheetOf(callBucket)], 2)[i] = before.values[i]

\* what C24 says of one step
UpdatedAtStep ==
    callBucket \in Buckets =>
        /\ StampsSyncTime(task[callBucket], task'[callBucket])
        /\ StampsSyncTime(second, second')
        /\ LET old == UpdatedAtCells(remote[SheetOf(callBucket)])
                new == UpdatedAtCells(remote'[SheetOf(callBucket)])
            IN  \A i \in 1..Len(old) :
                   i <= Len(new) => TimeOf(new[i]) >= TimeOf(old[i])
        /\ (store' # store => remote' = remote)

\* C24: a sync write sets the Updated At cell of every row it writes to the
\* time of its sync, the Updated At cell of a row of the table never goes
\* back from one step to the next, and a local edit changes no cell of the
\* spreadsheet
C24_UpdatedAtOnlyBySync == [][UpdatedAtStep]_vars

\* C25: the stored ticket summary has completed + open <= total
C25_CompletedOpenWithinTotal ==
    store.tickets.present =>
        store.tickets.completed.v + store.tickets.open.v <= store.tickets.total.v

\* the import just made was a ticket list over a summary that is no group
\* summary
TicketListOverOther ==
    /\ op = "importTicketsCsv"
    /\ reduction.format = "ticket-list"
    /\ ~(snap.tickets.present /\ snap.tickets.meta = "group-summary")

\* C25 as the code keeps it: after clearTickets, and after a TicketList
\* import over a summary that is no group summary, the stored summary has
\* completed + open <= total, its total being the number of data rows and
\* the sum of completed, open and pending
C25_AfterTicketListOrClear ==
    (op = "clearTickets" \/ TicketListOverOther) =>
        /\ store.tickets.present
        /\ store.tickets.completed.v + store.tickets.open.v <= store.tickets.total.v
        /\ store.tickets.completed.v + store.tickets.open.v + store.tickets.pending.v
              = store.tickets.total.v
        /\ TicketListOverOther => store.tickets.total = Num(Len(csv.rows))

\* C25 happens: a ticket list with a pending row was imported over a summary
\* of another total, left by an earlier import
C25_Witness ==
    /\ TicketListOverOther
    /\ imports = 2
    /\ store.tickets.pending.v > 0
    /\ store.tickets.completed.v > 0
    /\ snap.tickets.total # store.tickets.total
    /\ store.tickets.completed.v + store.tickets.open.v < store.tickets.total.v

\* the metrics the ticket table is to hold for a summary, and their counts
MetricNames(t) ==
    <<"Total Submitted", "Completed", "Open", "Pending">>
    \o (IF t.clientResolved.def THEN <<"Client Tickets Resolved">> ELSE <<>>)
    \o (IF t.employeeResolved.def THEN <<"Employee Tickets Resolved">> ELSE <<>>)

MetricCounts(t) ==
    <<t.total, t.completed, t.open, t.pending>>
    \o (IF t.clientResolved.def THEN <<t.clientResolved>> ELSE <<>>)
    \o (IF t.employeeResolved.def THEN <<t.employeeResolved>> ELSE <<>>)

\* the rows below the header of a sheet are the metric rows of summary t
HoldsMetricRows(grid, t) ==
    /\ Len(grid) = 1 + Len(MetricNames(t))
    /\ Len(MetricNames(t)) \in 4..6
    /\ \A i \in 1..Len(MetricNames(t)) :
          /\ grid[i + 1][1] = MetricNames(t)[i]
          /\ grid[i + 1][2] = CountCell(MetricCounts(t)[i])
          /\ grid[i + 1][3] = OrElse(t.lastImportedAt, "")

\* what C26 says of one step
TicketSyncStep ==
    LET sheet == SHEET_NAMES.TICKETS
        others == Sheets \ {sheet}
    IN  /\ (task[TICKETS].clear = "pending" /\ task'[TICKETS].clear = "ok") =>
              /\ remote'[sheet] = <<TicketHeader>>
              /\ \A s \in others : remote'[s] = remote[s]
        /\ (task[TICKETS].write = "pending" /\ task'[TICKETS].write = "ok") =>
              /\ HoldsMetricRows(remote'[sheet], snap.tickets)
              /\ \A s \in others : remote'[s] = remote[s]
        /\ task'[TICKETS] = task[TICKETS] => remote'[sheet] = remote[sheet]

\* C26: the clear of syncTicketsSummary empties the data region of the ticket
\* table, its write leaves there the four metric rows of the summary and the
\* Client and Employee Tickets Resolved rows that are defined, both leave the
\* bucket tables alone, and no step of a bucket sync changes the ticket table
C26_TicketSyncIndependent == [][TicketSyncStep]_vars

\* C26 happens: the summary with both resolved counts was written as six
\* rows while a bucket sync of the same syncToSheets failed
C26_Witness ==
    /\ op = "syncToSheets"
    /\ task[TICKETS].pc = "resolved"
    /\ task[TICKETS].write = "ok"
    /\ \E b \in Buckets : task[b].pc = "rejected"
    /\ snap.tickets.clientResolved.def
    /\ snap.tickets.employeeResolved.def
    /\ HoldsMetricRows(remote[SHEET_NAMES.TICKETS], snap.tickets)
    /\ Len(remote[SHEET_NAMES.TICKETS]) = 7

\* the status cell passes the test of the counter: its number or one of its
\* keywords
PassesTest(cell, counter) ==
    LET lower == toLowerCase(cell)
        n == Number(lower)
        is(k) == lower # "" /\ NumberIsFinite(n) /\ n = Num(k)
    IN  CASE counter = "completed" ->
                 \/ is(4) \/ is(5) \/ includes(lower, "resolved")
                 \/ includes(lower, "closed") \/ includes(lower, "complete")
          [] counter = "pending" ->
                 is(3) \/ includes(lower, "pending") \/ includes(lower, "waiting")
          [] OTHER -> is(2) \/ includes(lower, "open")

\* per file, the lines that pass the completed test, the lines that pass the
\* pending test and not the completed one, and the lines that pass more than
\* one test
PrecedenceSets ==
    [file \in ParsedFiles |->
        LET lines == 1..Len(file.rows)
            passes(i, c) == PassesTest(StatusCellOf(file, i), c)
        IN  [completed |-> {i \in lines : passes(i, "completed")},
             pending |-> {i \in lines : ~passes(i, "completed") /\ passes(i, "pending")},
             several |-> {i \in lines :
                            Cardinality({c \in {"completed", "pending", "open"} :
                                            passes(i, c)}) > 1}]]

\* C28: after a TicketList import completed, pending and open add up to the
\* number of data rows; every row that passes the completed test is counted
\* completed, every other row that passes the pending test is counted
\* pending, and every remaining row is counted open
C28_OneCounterPerRow ==
    (op = "importTicketsCsv" /\ reduction.format = "ticket-list") =>
        /\ reduction.completed + reduction.pending + reduction.open = Len(csv.rows)
        /\ reduction.completed = Cardinality(PrecedenceSets[csv].completed)
        /\ reduction.pending = Cardinality(PrecedenceSets[csv].pending)
        /\ store.tickets.completed.v + store.tickets.pending.v + store.tickets.open.v
              = Len(csv.rows)

\* C28 happens: a ticket list was imported in which rows pass the tests of
\* two counters, and rows of each of the three counters occur
C28_Witness ==
    /\ op = "importTicketsCsv"
    /\ reduction.format = "ticket-list"
    /\ Cardinality(PrecedenceSets[csv].several) >= 2
    /\ reduction.completed > 0
    /\ reduction.pending > 0
    /\ reduction.open > 0

\* what C29 says of one step
LoadStep ==
    /\ (op = "loadFromSheets" /\ phase = "running" /\ phase' = "done") =>
          \A b \in Buckets :
              /\ Len(loaded[b]) = 0 => store'[b] = store[b]
              /\ Len(loaded[b]) > 0 => store'[b] = loaded[b]
              /\ store[b] # <<>> => store'[b] # <<>>
    /\ (phase = "idle" /\ op' \in {"loadFromSheets", "syncToSheets"}
                       /\ ~(isAuthenticated /\ configured)) =>
          /\ task' = IdleTasks
          /\ phase' = "done"
          /\ store' = store
          /\ remote' = remote
    /\ (phase = "done" /\ ~(isAuthenticated /\ configured)) =>
          (task' = task /\ store' = store /\ remote' = remote)

\* C29: the setStore of loadFromSheets keeps the local bucket when the load
\* returned no item for it and makes it the loaded list when it returned
\* one or more, so no bucket that held items is left empty; and without a
\* connection loadFromSheets and syncToSheets start no service call and
\* leave the store and the spreadsheet as they were
C29_LoadKeepsNonEmpty == [][LoadStep]_vars

\* C29 happens: a load ended with one bucket kept, because the load returned
\* nothing for it, and another replaced by the loaded list
C29_Witness ==
    /\ op = "loadFromSheets"
    /\ phase = "done"
    /\ isAuthenticated /\ configured
    /\ \E b \in Buckets :
          /\ loaded[b] = <<>>
          /\ snap[b] # <<>>
          /\ store[b] = snap[b]
    /\ \E b \in Buckets :
          /\ loaded[b] # <<>>
          /\ store[b] = loaded[b]
          /\ store[b] # snap[b]

\* the table the interface names for each bucket
TableOf(b) ==
    CASE b = "profiles" -> "Profiles"
      [] b = "contracts" -> "Contracts"
      [] b = "projects" -> "Main Projects"

\* what C30 says of one step of a call of syncWorkloadItems
SyncFrameStep ==
    (op' = "syncWorkloadItems" /\ task'[callBucket] # task[callBucket]) =>
        /\ \A s \in Sheets :
              /\ remote'[s][1] = remote[s][1]
              /\ s # TableOf(callBucket) => remote'[s] = remote[s]
        /\ (~configured \/ ~isAuthenticated) =>
              /\ task'[callBucket].pc = "rejected"
              /\ task'[callBucket].clear = "none"
              /\ task'[callBucket].write = "none"
              /\ remote' = remote

\* C30: a call of syncWorkloadItems changes no header row and no row of a
\* table other than its bucket's, the three buckets having three tables of
\* their own, none of them the ticket table; and without a spreadsheet id,
\* or not authenticated, the call rejects with no clear and no write issued
C30_SyncTouchesOwnTableOnly ==
    /\ [][SyncFrameStep]_vars
    /\ [](/\ \A b \in Buckets : getSheetNameForBucket(b) = TableOf(b)
          /\ Cardinality({getSheetNameForBucket(b) : b \in Buckets}) = 3
          /\ SHEET_NAMES.TICKETS \notin {getSheetNameForBucket(b) : b \in Buckets})

\* C30 happens: the sync of the contracts bucket wrote its rows while the
\* table of the profiles bucket held rows
C30_Witness ==
    /\ op = "syncWorkloadItems"
    /\ callBucket = "contracts"
    /\ task[callBucket].pc = "resolved"
    /\ task[callBucket].write = "ok"
    /\ Len(remote["Contracts"]) > 1
    /\ Len(remote["Profiles"]) > 2
    /\ remote["Profiles"][2] = OldRow

=============================================================================
